---- MODULE Spec2Model ----
(***************************************************************************)
(* Model of the statement execution protocol of odbc-api:                  *)
(*   execute_with_parameters / execute / execute_columns / execute_tables  *)
(*   (odbc-api/src/execute.rs) on top of the Statement handle capability  *)
(*   (odbc-api/src/handles/statement.rs).                                  *)
(* One action per driver call (or blob pull) of the coordinator.  The      *)
(* driver and the blobs are the environment: their answers are drawn       *)
(* nondeterministically.  `calls` is the sequence of calls the driver      *)
(* observed.  The metadata reads of statement.rs run under SpecMeta, and   *)
(* under SpecI16 with lengths at the limits of their i16 arithmetic; the   *)
(* insert loop of odbcsv under SpecInsert; the lifecycle of StatementImpl  *)
(* (new, drop, into_sys) under SpecHandle.                                 *)
(***************************************************************************)
EXTENDS Integers, Sequences, FiniteSets, TLC

\* ------------------------------------------------------------------ bounds
\* Largest parameter_set_size a parameter collection reports.
MaxParamsetSize == 2
\* Largest number of delayed (Blob) parameters in a parameter collection.
MaxBlobs == 2
\* Largest number of batches one Blob yields before it is exhausted.
MaxBatches == 2
\* Largest number of delayed identities the driver requests in one execution.
MaxAsks == 2
\* Largest result-column count the driver reports.
MaxCols == 1
\* Number of distinct statement handles the statement factory may hand out.
NumHandles == 2
\* Longest column name, in characters, the driver reports.
MaxNameLen == 2
\* Largest capacity of the name buffer the caller passes in.
MaxCapacity == 2
\* Largest excess of a reallocated Vec's capacity over the requested length.
MaxSlack == 1
\* Largest value the driver writes to a numeric column attribute.
MaxAttr == 2
\* Most fill calls of one metadata read that are followed.
MaxFills == MaxNameLen + 2
\* Largest --batch-size of odbcsv insert.
MaxBatchSize == 2
\* Largest number of records in the CSV odbcsv insert reads.
MaxRecords == 4
\* Number of statement handles that are wrapped in a StatementImpl.
MaxWrappers == 3

\* ------------------------------------------------------------- value sets
\* odbc_sys::SqlReturn codes a driver call can answer with.
SqlReturn == {"SUCCESS", "SUCCESS_WITH_INFO", "ERROR", "NEED_DATA", "NO_DATA"}

\* Option<&U16Str>: None, or Some(text).
NoQuery == "None"
QueryTexts == {"SELECT", "UPDATE"}

Handles == 1..NumHandles
\* no statement handle (lazy_statement has not run)
NoHandle == CHOOSE h \in 0..NumHandles : h \notin Handles

\* The three coordinator entry points of execute.rs.
Operations == {"execute_with_parameters", "execute_columns", "execute_tables"}

\* Value pointers as the driver sees them: DelayedInput::stream_ptr of the
\* i-th blob of the collection; a pointer left bound by a prior use of the
\* handle, whose buffer is gone; the null pointer.
StreamPtr(i) == <<"blob", i>>
StalePtr == <<"stale">>
NullPtr == <<>>

\* io::ErrorKind of the error a Blob's next_batch may fail with.
IoErrors == {"UnexpectedEof", "Interrupted"}

\* Counts SQLNumResultCols may write to its i16 out parameter.
NumColsDomain == (0 - 1)..MaxCols

VARIABLES
    op,                 \* which entry point is being run
    debug_assertions,   \* build configuration: are debug_assert!s compiled in
    query,              \* Option<&U16Str> argument
    parameter_set_size, \* params.parameter_set_size()
    num_blobs,          \* number of delayed parameters in `params`
    pc,                 \* position of the coordinator
    statement,          \* the statement handle in use (NoHandle: none yet)
    acquired,           \* number of calls of lazy_statement
    apd,                \* value pointers bound on the handle, by parameter slot
    calls,              \* the calls observed by the driver, in order
    last_ret,           \* SqlReturn of the most recent driver call
    exec_ret,           \* SqlReturn of the execution call ("": not yet made)
    driver,             \* statement state inside the driver
    asks,               \* number of identities SQLParamData has handed out
    pulled,             \* per blob: the batches next_batch yielded (is it empty?)
    exhausted,          \* blobs whose next_batch has returned None
    blob_ref,           \* blob the streaming loop is draining (0: none)
    batch,              \* batch pulled and not yet sent: <<blob, index, is_empty>>
    io_error,           \* the io::Error a blob's next_batch returned ("": none)
    cols,               \* what the coordinator learnt from num_result_cols
    buf_len,            \* len() of the Vec<u16> a metadata read fills
    buf_cap,            \* capacity() of that Vec<u16>
    answers,            \* the driver's answers to the calls of a metadata read
    batch_size,         \* odbcsv insert: rows per batch (0: insert is not running)
    num_records,        \* odbcsv insert: records of the CSV
    rows_read,          \* odbcsv insert: records read so far
    buffer,             \* odbcsv insert: the records held by the TextRowSet
    long_names,         \* does the driver report lengths near the i16 limit
    wrappers,           \* per StatementImpl: the state of wrapper and handle
    result              \* outcome of the operation

vars == <<op, debug_assertions, query, parameter_set_size, num_blobs, pc,
          statement, acquired, apd, calls, last_ret, exec_ret, driver, asks,
          pulled, exhausted, blob_ref, batch, io_error, cols, buf_len, buf_cap,
          answers, batch_size, num_records, rows_read, buffer, long_names,
          wrappers, result>>

inputs == <<op, debug_assertions, query, parameter_set_size, num_blobs>>

\* The name buffer and the answers of a metadata read (statement.rs), which
\* the coordinator of execute.rs does not touch.
reader == <<buf_len, buf_cap, answers, long_names>>

\* The options and the input of odbcsv insert (odbcsv/src/main.rs).
csv == <<batch_size, num_records, rows_read, buffer>>

\* ---------------------------------------------------------------- results
Pending == [kind |-> "Pending", tag |-> "", cursor |-> NoHandle]
\* Ok(None)
OkNone == [kind |-> "Ok", tag |-> "None", cursor |-> NoHandle]
\* CursorImpl::new(statement), returned as Ok(Some(cursor)) by execute and as
\* Ok(cursor) by execute_columns / execute_tables
CursorImpl_new(s) ==
    [kind |-> "Ok", tag |-> IF op = "execute_with_parameters" THEN "Some" ELSE "Cursor",
     cursor |-> s]
\* Error::Diagnostics { function, .. }
DriverError(function) == [kind |-> "Err", tag |-> function, cursor |-> NoHandle]
\* Mutant: the io::Error is dropped instead of wrapped.
FailedReadingInput_drops_cause(cause) ==
    [kind |-> "Err", tag |-> "FailedReadingInput", cursor |-> NoHandle, cause |-> ""]

\* Error::FailedReadingInput(cause)
FailedReadingInput(cause) ==
    [kind |-> "Err", tag |-> "FailedReadingInput", cursor |-> NoHandle, cause |-> cause]
\* the error lazy_statement returned
AcquireError == [kind |-> "Err", tag |-> "lazy_statement", cursor |-> NoHandle]
\* the error bind_parameters_to returned
BindError == [kind |-> "Err", tag |-> "SQLBindParameter", cursor |-> NoHandle]
\* panic!/assert!/unwrap failure: the call unwinds instead of returning
Panic(what) == [kind |-> "Panic", tag |-> what, cursor |-> NoHandle]
\* a dangling pointer was reinterpreted as a blob reference
UndefinedBehaviour == [kind |-> "UB", tag |-> "transmute", cursor |-> NoHandle]

\* `cols` before and after a num_result_cols answer
Unchecked == [checked |-> FALSE, n |-> 0]
Checked(n) == [checked |-> TRUE, n |-> n]

\* One observed call on the handle: the function, the handle, its integer
\* argument or output, its text argument, its pointer argument or output.
Call(fn, h, n, text, ptr) == [fn |-> fn, h |-> h, n |-> n, text |-> text, ptr |-> ptr]

\* ------------------------------------------------- SqlResult classification
\* SqlResult<T>: Success(value) (SuccessWithInfo alike) or Error { function }.
SqlSuccess(value) == [ok |-> TRUE, value |-> value, function |-> ""]
SqlError(function) == [ok |-> FALSE, value |-> FALSE, function |-> function]

\* ExtSqlReturn::into_sql_result: a success code is Success(()), every other
\* code is an Error carrying the name of the function.
into_sql_result(ret, function) ==
    IF ret \in {"SUCCESS", "SUCCESS_WITH_INFO"} THEN SqlSuccess(TRUE) ELSE SqlError(function)

\* SqlResult::on_success: replaces the value of a success.
on_success(res, value) == IF res.ok THEN SqlSuccess(value) ELSE res

\* Mutant: NEED_DATA is reported as Success(false).
Stmt_exec_direct_need_data_false(ret) ==
    IF ret \in {"NEED_DATA", "NO_DATA"} THEN SqlSuccess(FALSE)
    ELSE on_success(into_sql_result(ret, "SQLExecDirectW"), FALSE)

\* Statement::exec_direct
Stmt_exec_direct(ret) ==
    IF ret = "NEED_DATA" THEN SqlSuccess(TRUE)
    ELSE IF ret = "NO_DATA" THEN SqlSuccess(FALSE)
    ELSE on_success(into_sql_result(ret, "SQLExecDirectW"), FALSE)

\* Mutant: NO_DATA is not special-cased and becomes an error.
Stmt_execute_no_data_is_error(ret) ==
    IF ret = "NEED_DATA" THEN SqlSuccess(TRUE)
    ELSE on_success(into_sql_result(ret, "SQLExecute"), FALSE)

\* Statement::execute
Stmt_execute(ret) ==
    IF ret = "NEED_DATA" THEN SqlSuccess(TRUE)
    ELSE IF ret = "NO_DATA" THEN SqlSuccess(FALSE)
    ELSE on_success(into_sql_result(ret, "SQLExecute"), FALSE)

\* Mutant: the error is tagged with the name of another function.
Stmt_param_data_wrong_tag(ret, param_id) ==
    IF ret = "NEED_DATA" THEN SqlSuccess(<<param_id>>)
    ELSE on_success(into_sql_result(ret, "SQLPutData"), <<>>)

\* Mutant: NEED_DATA is not special-cased.
Stmt_param_data_never_some(ret, param_id) ==
    on_success(into_sql_result(ret, "SQLParamData"), <<>>)

\* Statement::param_data: Some(param_id) on NEED_DATA, None on success.
Stmt_param_data(ret, param_id) ==
    IF ret = "NEED_DATA" THEN SqlSuccess(<<param_id>>)
    ELSE on_success(into_sql_result(ret, "SQLParamData"), <<>>)

\* Mutant: NEED_DATA is not special-cased and becomes an error.
Stmt_put_binary_batch_need_data_is_error(ret) ==
    on_success(into_sql_result(ret, "SQLPutData"), FALSE)

\* Statement::put_binary_batch, once the batch is known not to be empty.
Stmt_put_binary_batch(ret) ==
    IF ret = "NEED_DATA" THEN SqlSuccess(TRUE)
    ELSE on_success(into_sql_result(ret, "SQLPutData"), FALSE)

\* Statement::num_result_cols
Stmt_num_result_cols(ret, out) == on_success(into_sql_result(ret, "SQLNumResultCols"), out)

\* Statement::reset_parameters
Stmt_reset_parameters(ret) == into_sql_result(ret, "SQLFreeStmt")

\* Mutant: the return code of SQLSetStmtAttrW is ignored.
Stmt_set_paramset_size_ignores_error(ret) == SqlSuccess(TRUE)

\* Statement::set_paramset_size, once size > 0 is asserted.
Stmt_set_paramset_size(ret) == into_sql_result(ret, "SQLSetStmtAttrW")

\* Mutant: the return code of SQLColumnsW is ignored.
Stmt_columns_ignores_error(ret) == SqlSuccess(TRUE)

\* Statement::columns, Statement::tables
Stmt_columns(ret) == into_sql_result(ret, "SQLColumnsW")
Stmt_tables(ret) == into_sql_result(ret, "SQLTablesW")

\* ------------------------------------------------------------------ driver
\* A driver asks for data only for a parameter that is bound on the handle.
CanNeedData == Len(apd) > 0 /\ asks < MaxAsks
DriverAnswers == IF CanNeedData THEN SqlReturn ELSE SqlReturn \ {"NEED_DATA"}
Bound == {apd[i] : i \in 1..Len(apd)}

\* ------------------------------------------------------------------- Init
Init ==
    /\ op \in Operations
    /\ debug_assertions \in BOOLEAN
    \* execute_with_parameters holds no debug assertion
    /\ op = "execute_with_parameters" => debug_assertions
    /\ query \in {NoQuery} \cup QueryTexts
    /\ parameter_set_size \in 0..MaxParamsetSize
    /\ num_blobs \in 0..MaxBlobs
    \* execute_columns / execute_tables take neither a query nor parameters
    /\ op # "execute_with_parameters" =>
          query = NoQuery /\ parameter_set_size = 0 /\ num_blobs = 0
    /\ pc = op
    \* execute_columns / execute_tables are handed the statement itself
    /\ statement \in (IF op = "execute_with_parameters" THEN {NoHandle} ELSE Handles)
    /\ acquired = 0
    \* a reused handle may still have a parameter of its prior use bound
    /\ apd \in {<<>>, <<StalePtr>>}
    /\ calls = <<>>
    /\ last_ret = "SUCCESS"
    /\ exec_ret = ""
    /\ driver = "idle"
    /\ asks = 0
    /\ pulled = [i \in 1..num_blobs |-> <<>>]
    /\ exhausted = {}
    /\ blob_ref = 0
    /\ batch = <<>>
    /\ io_error = ""
    /\ cols = Unchecked
    /\ buf_len = 0
    /\ buf_cap = 0
    /\ answers = <<>>
    /\ batch_size = 0
    /\ num_records = 0
    /\ rows_read = 0
    /\ buffer = <<>>
    /\ long_names = FALSE
    /\ wrappers = <<>>
    /\ result = Pending

\* The operation returns (or unwinds) with outcome r.
Return(r) == result' = r /\ pc' = "done"

\* The driver observes a call and answers ret.
Observe(call, ret) == calls' = Append(calls, call) /\ last_ret' = ret

\* The statement state the driver is in after it answered ret.
DriverAfter(ret) ==
    IF ret = "NEED_DATA" THEN "need_data"
    ELSE IF ret \in {"SUCCESS", "SUCCESS_WITH_INFO", "NO_DATA"} THEN "executed"
    ELSE "error"

\* ------------------------------------------------ execute_with_parameters
\* Mutant: the guard compares with `<` and never takes the early return.
IsEmptyParameterSet_never == parameter_set_size < 0

\* Mutant: the guard is inverted.
IsEmptyParameterSet_inverted == parameter_set_size # 0

\* `if parameter_set_size == 0`
IsEmptyParameterSet == parameter_set_size = 0

\* Mutant: the parameters of the prior use are not reset.
AfterLazyStatement_no_reset == "set_paramset_size"

\* Lines 35-39: the first call on the acquired statement resets its parameters.
AfterLazyStatement == "reset_parameters"

\* Lines 29-35: read the cardinality; return Ok(None) for 0; otherwise call
\* lazy_statement, which hands out a statement or fails.
execute_with_parameters ==
    /\ pc = "execute_with_parameters"
    /\ IF IsEmptyParameterSet
       THEN /\ Return(OkNone)
            /\ UNCHANGED <<statement, acquired>>
       ELSE /\ acquired' = acquired + 1
            /\ \/ \E h \in Handles :
                     /\ statement' = h
                     /\ pc' = AfterLazyStatement
                     /\ result' = result
               \/ /\ Return(AcquireError)
                  /\ statement' = statement
    /\ UNCHANGED <<inputs, reader, csv, wrappers, io_error, apd, calls, last_ret, exec_ret,
                   driver, asks, pulled,
                   exhausted, blob_ref, batch, cols>>

\* Line 39: stmt.reset_parameters().into_result(stmt)?
\* SQLFreeStmt(ResetParams) releases every parameter buffer bound on the handle.
reset_parameters ==
    /\ pc = "reset_parameters"
    /\ \E ret \in SqlReturn \ {"NEED_DATA"} :
          /\ Observe(Call("SQLFreeStmt", statement, 0, "", NullPtr), ret)
          /\ IF Stmt_reset_parameters(ret).ok
             THEN apd' = <<>> /\ pc' = "set_paramset_size" /\ result' = result
             ELSE apd' = apd /\ Return(DriverError(Stmt_reset_parameters(ret).function))
    /\ UNCHANGED <<inputs, reader, csv, wrappers, io_error, statement, acquired, exec_ret,
                   driver, asks, pulled,
                   exhausted, blob_ref, batch, cols>>

\* Lines 41-42: stmt.set_paramset_size(parameter_set_size).into_result(stmt)?
\* Statement::set_paramset_size: assert!(size > 0), then
\* SQLSetStmtAttrW(ParamsetSize, size).
set_paramset_size ==
    /\ pc = "set_paramset_size"
    /\ IF ~(parameter_set_size > 0)
       THEN Return(Panic("assert")) /\ UNCHANGED <<calls, last_ret>>
       ELSE \E ret \in SqlReturn \ {"NEED_DATA"} :
               /\ Observe(Call("SQLSetStmtAttrW", statement, parameter_set_size, "", NullPtr), ret)
               /\ IF Stmt_set_paramset_size(ret).ok
                  THEN pc' = "bind_parameters_to" /\ result' = result
                  ELSE Return(DriverError(Stmt_set_paramset_size(ret).function))
    /\ UNCHANGED <<inputs, reader, csv, wrappers, io_error, statement, acquired, apd, exec_ret,
                   driver, asks,
                   pulled, exhausted, blob_ref, batch, cols>>

\* Statement::bind_delayed_input_parameter: SQLBindParameter with the blob's
\* stream pointer as the value pointer of slot parameter_number.
bind_delayed_input_parameter(slots, parameter_number, i) ==
    [k \in 1..parameter_number |->
        IF k = parameter_number THEN StreamPtr(i)
        ELSE IF k <= Len(slots) THEN slots[k] ELSE NullPtr]

\* ParameterRefCollection::bind_parameters_to: binds the collection's blobs to
\* the slots 1..num_blobs, in order.
RECURSIVE BindAll(_, _)
BindAll(slots, i) ==
    IF i > num_blobs THEN slots
    ELSE BindAll(bind_delayed_input_parameter(slots, i, i), i + 1)

\* Line 44: params.bind_parameters_to(stmt)?
bind_parameters_to ==
    /\ pc = "bind_parameters_to"
    /\ \/ /\ Observe(Call("bind_parameters_to", statement, num_blobs, "", NullPtr), "SUCCESS")
          /\ apd' = BindAll(apd, 1)
          /\ pc' = "execute"
          /\ result' = result
       \/ /\ num_blobs > 0
          /\ Observe(Call("bind_parameters_to", statement, num_blobs, "", NullPtr), "ERROR")
          /\ apd' = apd
          /\ Return(BindError)
    /\ UNCHANGED <<inputs, reader, csv, wrappers, io_error, statement, acquired, exec_ret,
                   driver, asks, pulled,
                   exhausted, blob_ref, batch, cols>>

\* ----------------------------------------------------------------- execute
\* Mutant: the two branches of the dispatch are exchanged.
ExecFunction_swapped == IF query # NoQuery THEN "SQLExecute" ELSE "SQLExecDirectW"

\* Mutant: the query text is ignored and the prepared plan is executed.
ExecFunction_always_prepared == "SQLExecute"

\* Lines 62-66: exec_direct(sql) if a query text is given, execute() if not.
ExecFunction == IF query # NoQuery THEN "SQLExecDirectW" ELSE "SQLExecute"

\* The SqlResult<bool> of the execution call the dispatch chose.
ExecResult(ret) ==
    IF ExecFunction = "SQLExecDirectW" THEN Stmt_exec_direct(ret) ELSE Stmt_execute(ret)

\* Mutant: the streaming loop is left out.
AfterExec_skip_streaming(need_data) == "num_result_cols"

\* Mutant: on need-data the coordinator waits for the driver, asking nothing.
AfterExec_waits(need_data) == IF need_data THEN "wait" ELSE "num_result_cols"

\* Mutant: the streaming loop is entered whatever the execution call answered.
AfterExec_always_streams(need_data) == "param_data"

\* Line 68, `if need_data`: where the coordinator goes after the execution call.
AfterExec(need_data) == IF need_data THEN "param_data" ELSE "num_result_cols"

\* Mutant: after one batch the driver is asked for the next identity.
AfterPut_next_identity == "param_data"

\* Lines 76-78: after a batch is sent, the next batch of the same blob is pulled.
AfterPut == "next_batch"

execute ==
    /\ pc = "execute"
    /\ \E ret \in DriverAnswers :
          /\ Observe(Call(ExecFunction, statement, 0,
                          IF ExecFunction = "SQLExecDirectW" THEN query ELSE "",
                          NullPtr), ret)
          /\ exec_ret' = ret
          /\ driver' = DriverAfter(ret)
          /\ IF ExecResult(ret).ok
             THEN pc' = AfterExec(ExecResult(ret).value) /\ result' = result
             ELSE Return(DriverError(ExecResult(ret).function))
    /\ UNCHANGED <<inputs, reader, csv, wrappers, io_error, statement, acquired, apd, asks,
                   pulled, exhausted,
                   blob_ref, batch, cols>>

\* Lines 73-74: the identity is reinterpreted as `*mut &mut dyn Blob`.
IsBlobPtr(ptr) == Len(ptr) = 2 /\ ptr[1] = "blob"
\* Mutant: every identity is taken for the first blob of the collection.
transmute_first(ptr) == 1

\* Line 74: the blob the identity points to.
transmute(ptr) == ptr[2]

\* Mutant: once no identity is left the statement is executed again.
AfterStreaming_reexecutes == "execute"

\* Lines 71 and 83: when param_data yields None the loop ends and the column
\* count is queried.
AfterStreaming == "num_result_cols"

\* Line 71: while let Some(blob_ptr) = stmt.param_data().into_result(stmt)?
\* SQLParamData writes the value pointer of the parameter that needs data.
param_data ==
    /\ pc = "param_data"
    /\ \E ret \in DriverAnswers :
       \E ptr \in (IF ret = "NEED_DATA" THEN Bound ELSE {NullPtr}) :
       LET res == Stmt_param_data(ret, ptr) IN
          /\ Observe(Call("SQLParamData", statement, 0, "", ptr), ret)
          /\ driver' = DriverAfter(ret)
          /\ asks' = IF ret = "NEED_DATA" THEN asks + 1 ELSE asks
          /\ IF ~res.ok
             THEN blob_ref' = blob_ref /\ Return(DriverError(res.function))
             ELSE IF res.value = <<>>
             THEN blob_ref' = blob_ref /\ pc' = AfterStreaming /\ result' = result
             ELSE IF IsBlobPtr(res.value[1])
             THEN blob_ref' = transmute(res.value[1]) /\ pc' = "next_batch" /\ result' = result
             ELSE blob_ref' = blob_ref /\ Return(UndefinedBehaviour)
    /\ UNCHANGED <<inputs, reader, csv, wrappers, io_error, statement, acquired, apd, exec_ret,
                   pulled, exhausted,
                   batch, cols>>

\* Line 76: while let Some(batch) = blob_ref.next_batch().map_err(FailedReadingInput)?
\* Blob::next_batch: the next batch of a finite forward-only source, None once
\* it is exhausted, or an io::Error.
next_batch ==
    /\ pc = "next_batch"
    /\ \/ /\ blob_ref \notin exhausted
          /\ Len(pulled[blob_ref]) < MaxBatches
          /\ \E is_empty \in BOOLEAN :
                /\ pulled' = [pulled EXCEPT ![blob_ref] = Append(@, is_empty)]
                /\ batch' = <<blob_ref, Len(pulled[blob_ref]) + 1, is_empty>>
          /\ pc' = "put_binary_batch"
          /\ UNCHANGED <<exhausted, io_error, result>>
       \/ /\ exhausted' = exhausted \cup {blob_ref}
          /\ pc' = "param_data"
          /\ UNCHANGED <<pulled, batch, io_error, result>>
       \/ /\ blob_ref \notin exhausted
          /\ \E cause \in IoErrors :
                /\ io_error' = cause
                /\ Return(FailedReadingInput(cause))
          /\ UNCHANGED <<pulled, batch, exhausted>>
    /\ UNCHANGED <<inputs, reader, csv, wrappers, statement, acquired, apd, calls, last_ret,
                   exec_ret,
                   driver, asks, blob_ref, cols>>

\* Mutant: the emptiness check is left out.
IsEmptyBatch_unchecked(b) == FALSE

\* Mutant: the emptiness check is inverted.
IsEmptyBatch_inverted(b) == ~b[3]

\* statement.rs line 710: batch.is_empty()
IsEmptyBatch(b) == b[3]

\* Line 77: stmt.put_binary_batch(batch).into_result(stmt)?
\* Statement::put_binary_batch: panics on an empty batch, else SQLPutData.
put_binary_batch ==
    /\ pc = "put_binary_batch"
    /\ IF IsEmptyBatch(batch)
       THEN Return(Panic("empty batch")) /\ UNCHANGED <<calls, last_ret, driver>>
       ELSE \E ret \in SqlReturn :
               /\ Observe(Call("SQLPutData", statement, 0, "",
                               <<"batch", batch[1], batch[2]>>), ret)
               /\ driver' = IF Stmt_put_binary_batch(ret).ok THEN driver ELSE "error"
               /\ IF Stmt_put_binary_batch(ret).ok
                  THEN pc' = AfterPut /\ result' = result
                  ELSE Return(DriverError(Stmt_put_binary_batch(ret).function))
    /\ batch' = <<>>
    /\ UNCHANGED <<inputs, reader, csv, wrappers, io_error, statement, acquired, apd, exec_ret,
                   asks, pulled,
                   exhausted, blob_ref, cols>>

\* Mutant: the column count is not compared, a cursor is always built.
HasResultSet_always(n) == TRUE

\* Mutant: the comparison is inverted.
HasResultSet_inverted(n) == n = 0

\* Line 83: `stmt.num_result_cols().into_result(stmt)? == 0` is false
HasResultSet(n) == n # 0

\* The driver's answers to SQLNumResultCols: a return code and the count it
\* wrote (none written unless it succeeds).
NumResultColsAnswers ==
    {<<ret, n>> \in (SqlReturn \ {"NEED_DATA"}) \X NumColsDomain :
        ret \notin {"SUCCESS", "SUCCESS_WITH_INFO"} => n = 0}

\* Lines 83-89: query the column count; Ok(None) without a result set, else
\* wrap the statement in a cursor.
num_result_cols ==
    /\ pc = "num_result_cols"
    /\ \E a \in NumResultColsAnswers :
       LET res == Stmt_num_result_cols(a[1], a[2]) IN
          /\ Observe(Call("SQLNumResultCols", statement, a[2], "", NullPtr), a[1])
          /\ IF ~res.ok
             THEN cols' = cols /\ Return(DriverError(res.function))
             ELSE /\ cols' = Checked(res.value)
                  /\ IF HasResultSet(res.value)
                     THEN Return(CursorImpl_new(statement))
                     ELSE Return(OkNone)
    /\ UNCHANGED <<inputs, reader, csv, wrappers, io_error, statement, acquired, apd, exec_ret,
                   driver, asks,
                   pulled, exhausted, blob_ref, batch>>

\* ------------------------------------------ execute_columns, execute_tables
\* Lines 106-107: stmt.columns(..).into_result(stmt)?
execute_columns ==
    /\ pc = "execute_columns"
    /\ \E ret \in SqlReturn \ {"NEED_DATA"} :
          /\ Observe(Call("SQLColumnsW", statement, 0, "", NullPtr), ret)
          /\ exec_ret' = ret
          /\ driver' = IF Stmt_columns(ret).ok THEN "executed" ELSE "error"
          /\ IF Stmt_columns(ret).ok
             THEN pc' = "assert_result_set" /\ result' = result
             ELSE Return(DriverError(Stmt_columns(ret).function))
    /\ UNCHANGED <<inputs, reader, csv, wrappers, io_error, statement, acquired, apd, asks,
                   pulled, exhausted,
                   blob_ref, batch, cols>>

\* Lines 131-132: stmt.tables(..).into_result(stmt)?
execute_tables ==
    /\ pc = "execute_tables"
    /\ \E ret \in SqlReturn \ {"NEED_DATA"} :
          /\ Observe(Call("SQLTablesW", statement, 0, "", NullPtr), ret)
          /\ exec_ret' = ret
          /\ driver' = IF Stmt_tables(ret).ok THEN "executed" ELSE "error"
          /\ IF Stmt_tables(ret).ok
             THEN pc' = "assert_result_set" /\ result' = result
             ELSE Return(DriverError(Stmt_tables(ret).function))
    /\ UNCHANGED <<inputs, reader, csv, wrappers, io_error, statement, acquired, apd, asks,
                   pulled, exhausted,
                   blob_ref, batch, cols>>

\* Lines 110-114 and 135-140: debug_assert_ne!(stmt.num_result_cols().unwrap(), 0)
\* and CursorImpl::new(statement).  The assertion, and with it the call, is
\* compiled in only with debug assertions.
assert_result_set ==
    /\ pc = "assert_result_set"
    /\ IF debug_assertions
       THEN \E a \in NumResultColsAnswers :
            LET res == Stmt_num_result_cols(a[1], a[2]) IN
               /\ Observe(Call("SQLNumResultCols", statement, a[2], "", NullPtr), a[1])
               /\ IF ~res.ok
                  THEN cols' = cols /\ Return(Panic("unwrap"))
                  ELSE /\ cols' = Checked(res.value)
                       /\ IF res.value # 0
                          THEN Return(CursorImpl_new(statement))
                          ELSE Return(Panic("debug_assert_ne"))
       ELSE /\ Return(CursorImpl_new(statement))
            /\ UNCHANGED <<calls, last_ret, cols>>
    /\ UNCHANGED <<inputs, reader, csv, wrappers, io_error, statement, acquired, apd, exec_ret,
                   driver, asks,
                   pulled, exhausted, blob_ref, batch>>

\* -------------------------------------------------------------------- Next
Next ==
    \/ execute_with_parameters
    \/ reset_parameters
    \/ set_paramset_size
    \/ bind_parameters_to
    \/ execute
    \/ param_data
    \/ next_batch
    \/ put_binary_batch
    \/ num_result_cols
    \/ execute_columns
    \/ execute_tables
    \/ assert_result_set

Spec == Init /\ [][Next]_vars

\* ======================================================== metadata readers
\* Statement::describe_col, Statement::col_name and Statement::is_unsigned_column
\* (odbc-api/src/handles/statement.rs).  One action per driver call; the
\* driver's answer to each call, its return code and the value it wrote to the
\* out parameter, is drawn nondeterministically and recorded in `answers`.

\* The reads of a variable-length name, and the accessors of a numeric column
\* attribute with the odbc_sys::Desc each of them passes.
NameReads == {"describe_col", "col_name"}
LenAccessors == {"col_octet_length", "col_display_size", "col_precision", "col_scale"}
TypeAccessors == {"col_type", "col_concise_type"}
NumericAccessors == {"is_unsigned_column"} \cup TypeAccessors \cup LenAccessors
MetadataReads == NameReads \cup NumericAccessors

\* Largest value of an i16 (name_length, string_length_in_bytes, buffer lengths).
I16_MAX == 32767

\* Lengths at which the i16 arithmetic of the name reads changes its outcome.
\* describe_col: name_length + 1 still is an i16 / overflows.
LongNameLengths == {I16_MAX - 1, I16_MAX}
\* col_name: twice the length + 1 still is an i16 / no longer is, and the
\* length + 2, the length + 1 overflow.
LongByteLengths ==
    {I16_MAX \div 2 - 1, I16_MAX \div 2, I16_MAX - 2, I16_MAX - 1, I16_MAX}
\* Capacities at which twice the capacity still fits an i16 / no longer does,
\* and at which clamp_small_int starts to clamp.
LongCapacities == {I16_MAX \div 2, I16_MAX \div 2 + 1, I16_MAX, I16_MAX + 1}

\* Lengths in characters SQLDescribeColW may write to name_length.
NameLengths == IF long_names THEN LongNameLengths ELSE 0..MaxNameLen
\* Lengths SQLColAttributeW may write to string_length_in_bytes: a conforming
\* driver reports bytes (two per character), others report characters.
ByteLengths == IF long_names THEN LongByteLengths ELSE 0..(2 * MaxNameLen)
\* Values SQLColAttributeW may write to the numeric attribute.
AttrValues == (0 - 1)..MaxAttr

\* buffer::clamp_small_int: a usize clamped into the range of an i16.
clamp_small_int(n) == IF n > I16_MAX THEN I16_MAX ELSE n

\* i16 addition of non-negative operands: does it overflow, and the value it
\* wraps to when overflow is not checked.
I16Overflows(x) == x > I16_MAX
WrapI16(x) == IF x > I16_MAX THEN x - 2 * (I16_MAX + 1) ELSE x

\* Vec::resize(new_len, 0): the capacity is kept if it suffices; otherwise the
\* vector reallocates and only `capacity >= new_len` is guaranteed.
Capacities(cap, new_len) ==
    IF new_len <= cap THEN {cap} ELSE new_len..(new_len + MaxSlack)

\* One answer of the driver: return code and the value of the out parameter.
Answer(ret, n) == [ret |-> ret, n |-> n]
\* The out parameter before the call: it is initialised to 0.
OutBefore == IF answers = <<>> THEN 0 ELSE answers[Len(answers)].n
\* A driver writes the out parameter when it succeeds, and leaves it alone
\* when it fails.
FillAnswers(domain) ==
    {a \in [ret : SqlReturn \ {"NEED_DATA"}, n : domain] :
        a.ret \notin {"SUCCESS", "SUCCESS_WITH_INFO"} => a.n = OutBefore}

\* Ok(()) / Ok(bool)
OkUnit == [kind |-> "Ok", tag |-> "()", cursor |-> NoHandle]
OkBool(b) == [kind |-> "Ok", tag |-> b, cursor |-> NoHandle]
\* Ok(Len) / Ok(isize), Ok(SqlDataType(i16))
OkLen(n) == [kind |-> "Ok", tag |-> "Len", cursor |-> NoHandle, value |-> n]
OkSqlDataType(n) == [kind |-> "Ok", tag |-> "SqlDataType", cursor |-> NoHandle, value |-> n]

\* State of the coordinator, which the metadata readers do not touch.
coordinator == <<query, parameter_set_size, num_blobs, acquired, apd, exec_ret,
                 driver, asks, pulled, exhausted, blob_ref, batch, io_error, cols>>

InitMeta ==
    /\ op \in MetadataReads
    /\ debug_assertions \in BOOLEAN
    /\ query = NoQuery /\ parameter_set_size = 0 /\ num_blobs = 0
    /\ pc = op
    /\ statement \in Handles
    /\ acquired = 0
    /\ apd = <<>>
    /\ calls = <<>>
    /\ last_ret = "SUCCESS"
    /\ exec_ret = ""
    /\ driver = "executed"
    /\ asks = 0
    /\ pulled = <<>>
    /\ exhausted = {}
    /\ blob_ref = 0
    /\ batch = <<>>
    /\ io_error = ""
    /\ cols = Unchecked
    /\ result = Pending
    \* the caller's Vec<u16>: any length within any capacity
    /\ buf_cap \in (IF op \in NameReads THEN 0..MaxCapacity ELSE {0})
    /\ buf_len \in 0..buf_cap
    /\ answers = <<>>
    /\ batch_size = 0
    /\ num_records = 0
    /\ rows_read = 0
    /\ buffer = <<>>
    /\ long_names = FALSE
    /\ wrappers = <<>>

\* Mutant: the error of a fill call is not looked at.
FillFailed_ignored(res) == FALSE

\* Lines 198-200 and 538-540: if res.is_err() { return res; }
FillFailed(res) == ~res.ok

\* Mutant: the room for the terminating zero is not counted.
DescribeColTruncated_strict(name_length, len) ==
    WrapI16(name_length) > clamp_small_int(len)

\* Mutant: the comparison is off by one, a buffer that just fits is retried.
DescribeColTruncated_off_by_one(name_length, len) ==
    WrapI16(name_length + 2) > clamp_small_int(len)

\* Line 204: name_length + 1 > clamp_small_int(name.len())
DescribeColTruncated(name_length, len) ==
    WrapI16(name_length + 1) > clamp_small_int(len)

\* Mutant: the buffer is grown without room for the terminating zero.
DescribeColRetryLen_no_terminator(name_length) == name_length

\* Line 206: name.resize(name_length as usize + 1, 0)
DescribeColRetryLen(name_length) == name_length + 1

\* Statement::describe_col, lines 169-213, one invocation: the buffer is
\* resized to its capacity, SQLDescribeColW fills it and reports the length
\* of the name; an error is returned as it is; if the name did not fit the
\* buffer is grown and describe_col calls itself, else the buffer is trimmed
\* to the name.
describe_col ==
    /\ pc = "describe_col"
    /\ Len(answers) < MaxFills
    /\ \E a \in FillAnswers(NameLengths) :
       LET len == buf_cap
           res == into_sql_result(a.ret, "SQLDescribeColW")
       IN
          /\ Observe(Call("SQLDescribeColW", statement, clamp_small_int(len), "", NullPtr),
                     a.ret)
          /\ answers' = Append(answers, a)
          /\ IF FillFailed(res)
             THEN /\ buf_len' = len /\ buf_cap' = buf_cap
                  /\ Return(DriverError(res.function))
             ELSE IF debug_assertions /\ I16Overflows(a.n + 1)
             THEN /\ buf_len' = len /\ buf_cap' = buf_cap
                  /\ Return(Panic("overflow"))
             ELSE IF DescribeColTruncated(a.n, len)
             THEN /\ buf_len' = DescribeColRetryLen(a.n)
                  /\ buf_cap' \in Capacities(buf_cap, DescribeColRetryLen(a.n))
                  /\ pc' = "describe_col" /\ result' = result
             ELSE /\ buf_len' = a.n /\ buf_cap' \in Capacities(buf_cap, a.n)
                  /\ Return(OkUnit)
    /\ UNCHANGED <<op, debug_assertions, statement, coordinator, csv, long_names, wrappers>>

\* Lines 532 and 554: (buf.len() * 2).try_into().unwrap() is an i16
ColNameBufferLength(len) == len * 2

\* Line 542: clamp_small_int(buf.len() * 2) < string_length_in_bytes + 2
ColNameTruncated(string_length_in_bytes, len) ==
    clamp_small_int(len * 2) < WrapI16(string_length_in_bytes + 2)

\* Line 548: buf.resize((string_length_in_bytes + 1).try_into().unwrap(), 0)
ColNameRetryLen(string_length_in_bytes) == string_length_in_bytes + 1

\* Line 561: string_length_in_bytes + 1 overflows the i16; the addition panics
\* where overflow is checked, else it wraps to a negative length, which
\* try_into::<usize>().unwrap() rejects.
ColNameTrimFails(string_length_in_bytes) == I16Overflows(string_length_in_bytes + 1)

\* Mutant: the buffer is trimmed to the length in bytes.
ColNameTrim_in_bytes(string_length_in_bytes) == string_length_in_bytes

\* Line 561: ((string_length_in_bytes + 1) / 2).try_into().unwrap()
ColNameTrim(string_length_in_bytes) == (string_length_in_bytes + 1) \div 2

\* Statement::col_name, lines 521-546 and 561-563: the buffer is resized to
\* its capacity and SQLColAttributeW(Desc::Name) fills it; an error is
\* returned as it is; if the name fit, the buffer is trimmed to it.
col_name ==
    /\ pc = "col_name"
    /\ LET len == buf_cap IN
       IF I16Overflows(ColNameBufferLength(len))
       THEN /\ buf_len' = len /\ buf_cap' = buf_cap
            /\ Return(Panic("unwrap"))
            /\ UNCHANGED <<calls, last_ret, answers>>
       ELSE \E a \in FillAnswers(ByteLengths) :
            LET res == into_sql_result(a.ret, "SQLColAttributeW") IN
               /\ Observe(Call("SQLColAttributeW", statement, ColNameBufferLength(len),
                               "Name", NullPtr), a.ret)
               /\ answers' = Append(answers, a)
               /\ IF FillFailed(res)
                  THEN /\ buf_len' = len /\ buf_cap' = buf_cap
                       /\ Return(DriverError(res.function))
                  ELSE IF debug_assertions /\ I16Overflows(a.n + 2)
                  THEN /\ buf_len' = len /\ buf_cap' = buf_cap
                       /\ Return(Panic("overflow"))
                  ELSE IF ColNameTruncated(a.n, len)
                  THEN /\ buf_len' = ColNameRetryLen(a.n)
                       /\ buf_cap' \in Capacities(buf_cap, ColNameRetryLen(a.n))
                       /\ pc' = "col_name_retry" /\ result' = result
                  ELSE IF ColNameTrimFails(a.n)
                  THEN /\ buf_len' = len /\ buf_cap' = buf_cap
                       /\ Return(Panic("unwrap"))
                  ELSE /\ buf_len' = ColNameTrim(a.n)
                       /\ buf_cap' \in Capacities(buf_cap, ColNameTrim(a.n))
                       /\ Return(OkUnit)
    /\ UNCHANGED <<op, debug_assertions, statement, coordinator, csv, long_names, wrappers>>

\* Statement::col_name, lines 549-563: the second SQLColAttributeW call on the
\* grown buffer; whatever it answers, the buffer is trimmed to the length now
\* in string_length_in_bytes (a panic if that length is not representable) and
\* the result of the call is returned.
col_name_retry ==
    /\ pc = "col_name_retry"
    /\ IF I16Overflows(ColNameBufferLength(buf_len))
       THEN /\ Return(Panic("unwrap"))
            /\ UNCHANGED <<calls, last_ret, answers, buf_len, buf_cap>>
       ELSE \E a \in FillAnswers(ByteLengths) :
            LET res == into_sql_result(a.ret, "SQLColAttributeW") IN
               /\ Observe(Call("SQLColAttributeW", statement, ColNameBufferLength(buf_len),
                               "Name", NullPtr), a.ret)
               /\ answers' = Append(answers, a)
               /\ IF ColNameTrimFails(a.n)
                  THEN /\ UNCHANGED <<buf_len, buf_cap>>
                       /\ Return(Panic(IF debug_assertions THEN "overflow" ELSE "unwrap"))
                  ELSE /\ buf_len' = ColNameTrim(a.n)
                       /\ buf_cap' \in Capacities(buf_cap, ColNameTrim(a.n))
                       /\ IF res.ok
                          THEN Return(OkUnit)
                          ELSE Return(DriverError(res.function))
    /\ UNCHANGED <<op, debug_assertions, statement, coordinator, csv, long_names, wrappers>>

\* Mutant: the value is read before the driver has written it.
numeric_col_attribute_unwritten(a) ==
    on_success(into_sql_result(a.ret, "SQLColAttributeW"), 0)

\* Statement::numeric_col_attribute, lines 570-583: one SQLColAttributeW call
\* without a character buffer; Success(out) or the error of the call.
numeric_col_attribute(a) == on_success(into_sql_result(a.ret, "SQLColAttributeW"), a.n)

\* Mutant: every value other than 0 is taken for true.
UnsignedOf_coerces(out) == IF out = 0 THEN OkBool("false") ELSE OkBool("true")

\* Lines 465-469: 0 => false, 1 => true, _ => panic!
UnsignedOf(out) ==
    IF out = 0 THEN OkBool("false")
    ELSE IF out = 1 THEN OkBool("true")
    ELSE Panic("Unsigned column attribute must be either 0 or 1.")

\* Statement::is_unsigned_column, lines 464-470: the closure runs on the value
\* of a success only (SqlResult::map), an error is returned as it is.
is_unsigned_column ==
    /\ pc = "is_unsigned_column"
    /\ \E a \in [ret : SqlReturn \ {"NEED_DATA"}, n : AttrValues] :
          /\ Observe(Call("SQLColAttributeW", statement, 0, "Unsigned", NullPtr), a.ret)
          /\ answers' = Append(answers, a)
          /\ IF numeric_col_attribute(a).ok
             THEN Return(UnsignedOf(numeric_col_attribute(a).value))
             ELSE Return(DriverError(numeric_col_attribute(a).function))
    /\ UNCHANGED <<op, debug_assertions, statement, coordinator, csv, long_names,
                   wrappers, buf_len, buf_cap>>

\* Values SQLColAttributeW may write for Desc::Type / Desc::ConciseType: a Len
\* is wider than the i16 of SqlDataType.
TypeAttrValues == AttrValues \cup {I16_MAX, I16_MAX + 1}

\* Lines 477 and 486: SqlDataType(ret.try_into().unwrap())
SqlDataTypeOf(out) ==
    IF out > I16_MAX \/ out < 0 - (I16_MAX + 1)
    THEN Panic("unwrap")
    ELSE OkSqlDataType(out)

\* The answers of the driver to a numeric SQLColAttributeW call.
NumericAnswers(domain) == [ret : SqlReturn \ {"NEED_DATA"}, n : domain]

\* One call of numeric_col_attribute for the attribute desc, answered with a.
NumericAccessor(desc, a) ==
    /\ Observe(Call("SQLColAttributeW", statement, 0, desc, NullPtr), a.ret)
    /\ answers' = Append(answers, a)
    /\ UNCHANGED <<op, debug_assertions, statement, coordinator, csv, long_names,
                   wrappers, buf_len, buf_cap>>

\* The outcome of an accessor that returns the value as it is.
LenOf(a) ==
    IF numeric_col_attribute(a).ok
    THEN OkLen(numeric_col_attribute(a).value)
    ELSE DriverError(numeric_col_attribute(a).function)

\* The outcome of an accessor that maps the value of a success to SqlDataType.
TypeOf(a) ==
    IF numeric_col_attribute(a).ok
    THEN SqlDataTypeOf(numeric_col_attribute(a).value)
    ELSE DriverError(numeric_col_attribute(a).function)

\* Statement::col_type, lines 475-478
col_type ==
    /\ pc = "col_type"
    /\ \E a \in NumericAnswers(TypeAttrValues) : NumericAccessor("Type", a) /\ Return(TypeOf(a))

\* Statement::col_concise_type, lines 484-487
col_concise_type ==
    /\ pc = "col_concise_type"
    /\ \E a \in NumericAnswers(TypeAttrValues) :
          NumericAccessor("ConciseType", a) /\ Return(TypeOf(a))

\* Statement::col_octet_length, lines 493-495
col_octet_length ==
    /\ pc = "col_octet_length"
    /\ \E a \in NumericAnswers(AttrValues) : NumericAccessor("OctetLength", a) /\ Return(LenOf(a))

\* Statement::col_display_size, lines 500-502
col_display_size ==
    /\ pc = "col_display_size"
    /\ \E a \in NumericAnswers(AttrValues) : NumericAccessor("DisplaySize", a) /\ Return(LenOf(a))

\* Statement::col_precision, lines 509-511
col_precision ==
    /\ pc = "col_precision"
    /\ \E a \in NumericAnswers(AttrValues) : NumericAccessor("Precision", a) /\ Return(LenOf(a))

\* Statement::col_scale, lines 515-517
col_scale ==
    /\ pc = "col_scale"
    /\ \E a \in NumericAnswers(AttrValues) : NumericAccessor("Scale", a) /\ Return(LenOf(a))

NextMeta ==
    \/ describe_col
    \/ col_name
    \/ col_name_retry
    \/ is_unsigned_column
    \/ col_type
    \/ col_concise_type
    \/ col_octet_length
    \/ col_display_size
    \/ col_precision
    \/ col_scale

SpecMeta == InitMeta /\ [][NextMeta]_vars

\* The name reads with a driver whose lengths, and a caller whose buffer
\* capacities, come close to the limits of the i16 arithmetic of statement.rs.
InitI16 ==
    /\ op \in NameReads
    /\ debug_assertions \in BOOLEAN
    /\ query = NoQuery /\ parameter_set_size = 0 /\ num_blobs = 0
    /\ pc = op
    /\ statement \in Handles
    /\ acquired = 0
    /\ apd = <<>>
    /\ calls = <<>>
    /\ last_ret = "SUCCESS"
    /\ exec_ret = ""
    /\ driver = "executed"
    /\ asks = 0
    /\ pulled = <<>>
    /\ exhausted = {}
    /\ blob_ref = 0
    /\ batch = <<>>
    /\ io_error = ""
    /\ cols = Unchecked
    /\ result = Pending
    \* the caller's Vec<u16>: empty, within any capacity
    /\ buf_cap \in (0..MaxCapacity) \cup LongCapacities
    /\ buf_len = 0
    /\ answers = <<>>
    /\ batch_size = 0
    /\ num_records = 0
    /\ rows_read = 0
    /\ buffer = <<>>
    /\ long_names = TRUE
    /\ wrappers = <<>>

NextI16 ==
    \/ describe_col
    \/ col_name
    \/ col_name_retry

SpecI16 == InitI16 /\ [][NextI16]_vars

\* ============================================================ odbcsv insert
\* The record loop of `insert` (odbcsv/src/main.rs, lines 441-465).  The
\* variable parameter_set_size is buffer.num_rows(), the cardinality the
\* buffer reports when it is executed; one entry of `calls` stands for the
\* execution of the prepared statement on the driver with that many rows.

\* the csv::Error of a record that cannot be read
CsvError == [kind |-> "Err", tag |-> "csv", cursor |-> NoHandle]
\* Ok(())
InsertOk == [kind |-> "Ok", tag |-> "()", cursor |-> NoHandle]

InitInsert ==
    /\ op = "insert"
    /\ debug_assertions \in BOOLEAN
    /\ query = NoQuery
    \* TextRowSet::from_max_str_lens: a buffer without rows
    /\ parameter_set_size = 0
    /\ num_blobs = 0
    /\ pc = "insert_record"
    /\ statement \in Handles
    /\ acquired = 0
    /\ apd = <<>>
    /\ calls = <<>>
    /\ last_ret = "SUCCESS"
    /\ exec_ret = ""
    /\ driver = "idle"
    /\ asks = 0
    /\ pulled = <<>>
    /\ exhausted = {}
    /\ blob_ref = 0
    /\ batch = <<>>
    /\ io_error = ""
    /\ cols = Unchecked
    /\ buf_len = 0
    /\ buf_cap = 0
    /\ answers = <<>>
    /\ result = Pending
    \* main rejects a batch size of 0 (main.rs, line 219)
    /\ batch_size \in 1..MaxBatchSize
    /\ num_records \in 0..MaxRecords
    /\ rows_read = 0
    /\ buffer = <<>>
    /\ long_names = FALSE
    /\ wrappers = <<>>

\* Line 452, buffer.clear(): the buffer holds no rows.
TextRowSet_clear == <<>>

\* Lines 456-460, buffer.append(record): the record becomes the last row.
TextRowSet_append(rows, record) == Append(rows, record)

\* Mutant: the buffer is sent only once it holds one row too many.
BufferIsFull_late == parameter_set_size = batch_size + 1

\* Line 442: buffer.num_rows() == *batch_size as usize
BufferIsFull == parameter_set_size = batch_size

\* statement.execute(&buffer) answered by the driver with ret: nothing is
\* executed for a buffer without rows (execute_with_parameters, lines 29-32),
\* else the driver observes the execution of the parameter_set_size rows the
\* buffer holds.
PreparedExecute(ret) ==
    IF IsEmptyParameterSet
    THEN UNCHANGED <<calls, last_ret>>
    ELSE Observe(Call("SQLExecute", statement, parameter_set_size, "", buffer), ret)

\* Did statement.execute(&buffer)? return early with the error of the driver.
ExecuteFailed(ret) == ~IsEmptyParameterSet /\ ~Stmt_execute(ret).ok

\* Lines 441-458, one iteration of the loop over the records: a full buffer
\* is executed and cleared first; then the record is read and appended.
insert_record ==
    /\ pc = "insert_record"
    /\ rows_read < num_records
    /\ \E ret \in {"SUCCESS", "ERROR"}, record_ok \in BOOLEAN :
          IF BufferIsFull
          THEN /\ PreparedExecute(ret)
               /\ IF ExecuteFailed(ret)
                  THEN /\ Return(DriverError(Stmt_execute(ret).function))
                       /\ UNCHANGED <<parameter_set_size, rows_read, buffer>>
                  ELSE IF ~record_ok
                  THEN /\ Return(CsvError)
                       /\ parameter_set_size' = 0
                       /\ buffer' = TextRowSet_clear
                       /\ rows_read' = rows_read
                  ELSE /\ parameter_set_size' = 1
                       /\ buffer' = TextRowSet_append(TextRowSet_clear, rows_read + 1)
                       /\ rows_read' = rows_read + 1
                       /\ UNCHANGED <<pc, result>>
          ELSE /\ ret = "SUCCESS"
               /\ UNCHANGED <<calls, last_ret>>
               /\ IF ~record_ok
                  THEN /\ Return(CsvError)
                       /\ UNCHANGED <<parameter_set_size, rows_read, buffer>>
                  ELSE /\ parameter_set_size' = parameter_set_size + 1
                       /\ buffer' = TextRowSet_append(buffer, rows_read + 1)
                       /\ rows_read' = rows_read + 1
                       /\ UNCHANGED <<pc, result>>
    /\ UNCHANGED <<op, debug_assertions, query, num_blobs, statement, acquired, apd,
                   exec_ret, driver, asks, pulled, exhausted, blob_ref, batch,
                   io_error, cols, reader, batch_size, num_records, wrappers>>

\* Lines 460-467, after the loop: the remainder of the buffer is executed.
insert_flush ==
    /\ pc = "insert_record"
    /\ rows_read = num_records
    /\ \E ret \in {"SUCCESS", "ERROR"} :
          /\ IsEmptyParameterSet => ret = "SUCCESS"
          /\ PreparedExecute(ret)
          /\ IF ExecuteFailed(ret)
             THEN Return(DriverError(Stmt_execute(ret).function))
             ELSE Return(InsertOk)
    /\ UNCHANGED <<op, debug_assertions, query, parameter_set_size, num_blobs, statement,
                   acquired, apd, exec_ret, driver, asks, pulled, exhausted, blob_ref,
                   batch, io_error, cols, reader, csv, wrappers>>

NextInsert ==
    \/ insert_record
    \/ insert_flush

SpecInsert == InitInsert /\ [][NextInsert]_vars

\* ==================================================== StatementImpl lifecycle
\* StatementImpl::new, Drop for StatementImpl and StatementImpl::into_sys
\* (odbc-api/src/handles/statement.rs, lines 25-66).  `wrappers` holds, per
\* statement handle, where the handle is: "allocated" (valid, not yet wrapped),
\* "wrapped" (owned by a live StatementImpl), "dropped" (the wrapper was
\* dropped), "raw" (into_sys handed it to the caller), "freed" (the caller
\* released it).  `calls` logs the releases the driver observes, the text
\* field naming who released.
WrapperStates == {"allocated", "wrapped", "dropped", "raw", "freed"}

\* handles::drop_handle(handle, HandleType::Stmt): SQLFreeHandle on the handle.
drop_handle(h) == Call("SQLFreeHandle", h, 0, "StatementImpl", NullPtr)
\* crate::sys::SQLFreeHandle called by the owner of a raw handle.
SQLFreeHandle(h) == Call("SQLFreeHandle", h, 0, "caller", NullPtr)

InitHandle ==
    /\ op = "StatementImpl"
    /\ debug_assertions \in BOOLEAN
    /\ query = NoQuery /\ parameter_set_size = 0 /\ num_blobs = 0
    /\ pc = "StatementImpl"
    /\ statement = NoHandle
    /\ acquired = 0
    /\ apd = <<>>
    /\ calls = <<>>
    /\ last_ret = "SUCCESS"
    /\ exec_ret = ""
    /\ driver = "idle"
    /\ asks = 0
    /\ pulled = <<>>
    /\ exhausted = {}
    /\ blob_ref = 0
    /\ batch = <<>>
    /\ io_error = ""
    /\ cols = Unchecked
    /\ result = Pending
    /\ buf_len = 0
    /\ buf_cap = 0
    /\ answers = <<>>
    /\ batch_size = 0
    /\ num_records = 0
    /\ rows_read = 0
    /\ buffer = <<>>
    /\ long_names = FALSE
    \* `handle` must be a valid (successfully allocated) statement handle
    /\ wrappers = [h \in 1..MaxWrappers |-> "allocated"]

\* Everything but the handles and the releases the driver observes.
not_lifecycle == <<inputs, pc, statement, acquired, apd, last_ret, exec_ret, driver,
                   asks, pulled, exhausted, blob_ref, batch, io_error, cols, reader,
                   csv, result>>

\* Lines 53-58, StatementImpl::new(handle): the wrapper takes the handle.
StatementImpl_new ==
    /\ \E h \in DOMAIN wrappers :
          /\ wrappers[h] = "allocated"
          /\ wrappers' = [wrappers EXCEPT ![h] = "wrapped"]
    /\ UNCHANGED <<calls, not_lifecycle>>

\* Lines 42-48, Drop::drop: a wrapper that goes out of scope releases its
\* handle through drop_handle.
StatementImpl_drop ==
    /\ \E h \in DOMAIN wrappers :
          /\ wrappers[h] = "wrapped"
          /\ wrappers' = [wrappers EXCEPT ![h] = "dropped"]
          /\ calls' = Append(calls, drop_handle(h))
    /\ UNCHANGED not_lifecycle

\* Mutant: into_sys reads the handle out of `self`, which is then dropped.
IntoSysRunsDropHandler_not_suppressed == TRUE

\* Line 65, ManuallyDrop::new(self): the drop handler of the consumed wrapper
\* does not run.
IntoSysRunsDropHandler == FALSE

\* Lines 61-66, StatementImpl::into_sys(self): the wrapper is consumed and
\* the raw handle belongs to the caller.
StatementImpl_into_sys ==
    /\ \E h \in DOMAIN wrappers :
          /\ wrappers[h] = "wrapped"
          /\ wrappers' = [wrappers EXCEPT ![h] = "raw"]
          /\ calls' = IF IntoSysRunsDropHandler THEN Append(calls, drop_handle(h)) ELSE calls
    /\ UNCHANGED not_lifecycle

\* Lines 61-62: it is the caller's responsibility to call SQLFreeHandle on the
\* handle into_sys returned.
caller_SQLFreeHandle ==
    /\ \E h \in DOMAIN wrappers :
          /\ wrappers[h] = "raw"
          /\ wrappers' = [wrappers EXCEPT ![h] = "freed"]
          /\ calls' = Append(calls, SQLFreeHandle(h))
    /\ UNCHANGED not_lifecycle

NextHandle ==
    \/ StatementImpl_new
    \/ StatementImpl_drop
    \/ StatementImpl_into_sys
    \/ caller_SQLFreeHandle

SpecHandle == InitHandle /\ [][NextHandle]_vars

\* ================================================================== claims
Ewp == op = "execute_with_parameters"
Done == pc = "done"
ExecFns == {"SQLExecDirectW", "SQLExecute"}
SetupFns == {"SQLFreeStmt", "SQLSetStmtAttrW", "bind_parameters_to"}
CallIndices == 1..Len(calls)
CountCalls(fn) == Cardinality({k \in CallIndices : calls[k].fn = fn})

\* C1: for a parameter collection of cardinality 0, execute_with_parameters
\* returns Ok(None), never calls the statement factory and issues no driver
\* call at all.
C1_EmptySetNoAcquireNoCall ==
    (Ewp /\ parameter_set_size = 0) =>
        /\ acquired = 0
        /\ statement = NoHandle
        /\ calls = <<>>
        /\ pc \in {"execute_with_parameters", "done"}
        /\ (Done => result = OkNone)

C1_Witness ==
    Ewp /\ parameter_set_size = 0 /\ Done /\ result = OkNone /\ acquired = 0

\* C2: for cardinality n > 0 the statement is acquired exactly once, and the
\* driver observes reset-parameters, set-cardinality(n), bind, in this order
\* and each exactly once, before any execution call.
C2_ResetSizeBindBeforeExec ==
    (Ewp /\ parameter_set_size > 0) =>
        /\ acquired = (IF pc = "execute_with_parameters" THEN 0 ELSE 1)
        /\ \A fn \in SetupFns : CountCalls(fn) <= 1
        /\ Len(calls) >= 1 => calls[1] = Call("SQLFreeStmt", statement, 0, "", NullPtr)
        /\ Len(calls) >= 2 =>
              calls[2] = Call("SQLSetStmtAttrW", statement, parameter_set_size, "", NullPtr)
        /\ Len(calls) >= 3 =>
              calls[3] = Call("bind_parameters_to", statement, num_blobs, "", NullPtr)
        /\ \A k \in CallIndices : calls[k].fn \in ExecFns => k = 4

C2_Witness ==
    /\ Ewp /\ parameter_set_size > 0 /\ acquired = 1
    /\ \E k \in CallIndices : calls[k].fn \in ExecFns

\* The calls as the driver observes them on handle h.
Reset(h) == Call("SQLFreeStmt", h, 0, "", NullPtr)
SetCardinality(h, n) == Call("SQLSetStmtAttrW", h, n, "", NullPtr)
Bind(h, n) == Call("bind_parameters_to", h, n, "", NullPtr)
ExecutePrepared(h) == Call("SQLExecute", h, 0, "", NullPtr)
ExecDirect(h, text) == Call("SQLExecDirectW", h, 0, text, NullPtr)
Ask(h, ptr) == Call("SQLParamData", h, 0, "", ptr)
Put(h, i, idx) == Call("SQLPutData", h, 0, "", <<"batch", i, idx>>)
NumCols(h, n) == Call("SQLNumResultCols", h, n, "", NullPtr)

\* C3: a prepared statement (no query text), cardinality 1, one delayed
\* parameter whose blob yields two non-empty batches, a driver that asks for
\* it once and reports 0 result columns: the call returns Ok(None) and the
\* driver observes exactly reset, set-cardinality(1), bind, execute,
\* param-data->id, put(batch1), put(batch2), param-data->none,
\* num-result-cols->0.
C3_Scenario ==
    /\ Ewp /\ query = NoQuery /\ parameter_set_size = 1 /\ num_blobs = 1
    /\ asks = 1 /\ pulled[1] = <<FALSE, FALSE>> /\ exhausted = {1}
    /\ cols = Checked(0)

C3_EndToEnd ==
    C3_Scenario =>
        /\ Done
        /\ result = OkNone
        /\ calls = << Reset(statement), SetCardinality(statement, 1), Bind(statement, 1),
                      ExecutePrepared(statement), Ask(statement, StreamPtr(1)),
                      Put(statement, 1, 1), Put(statement, 1, 2),
                      Ask(statement, NullPtr), NumCols(statement, 0) >>

C3_Witness == C3_Scenario /\ Done /\ result = OkNone /\ Len(calls) = 9

\* C4: in the streaming loop every batch of the identity the driver asked for
\* is sent with put-data, in the blob's order, before param-data is called
\* again; identities [P1, P2] with P1 -> [a, b], P2 -> [c] give exactly
\* ask->P1, put(a), put(b), ask->P2, put(c), ask->none.
IsPut(k) == calls[k].fn = "SQLPutData"
IsAsk(k) == calls[k].fn = "SQLParamData"
PutCount(i) == Cardinality({k \in CallIndices : IsPut(k) /\ calls[k].ptr[2] = i})
Asked(i) == \E k \in CallIndices : IsAsk(k) /\ calls[k].ptr = StreamPtr(i)
\* the streaming loop is between two blobs, or over
Drained == pc \in {"param_data", "num_result_cols"} \/ (Done /\ result.kind = "Ok")

C4_Scenario ==
    /\ Ewp /\ num_blobs = 2 /\ asks = 2 /\ pc = "num_result_cols"
    /\ pulled[1] = <<FALSE, FALSE>> /\ pulled[2] = <<FALSE>>
    /\ Len(calls) > 4 /\ calls[5] = Ask(statement, StreamPtr(1))
    /\ \E k \in CallIndices : calls[k] = Ask(statement, StreamPtr(2))

C4_DrainBeforeNextIdentity ==
    /\ \A k \in CallIndices : IsPut(k) =>
          /\ k > 1
          /\ IF calls[k].ptr[3] = 1
             THEN calls[k - 1] = Ask(statement, StreamPtr(calls[k].ptr[2]))
             ELSE calls[k - 1] = Put(statement, calls[k].ptr[2], calls[k].ptr[3] - 1)
    /\ \A i \in 1..num_blobs :
          /\ PutCount(i) <= Len(pulled[i])
          /\ (Drained /\ Asked(i)) =>
                /\ i \in exhausted
                /\ PutCount(i) = Len(pulled[i])
                /\ \A j \in 1..Len(pulled[i]) : ~pulled[i][j]
    /\ C4_Scenario =>
          SubSeq(calls, 5, Len(calls)) =
             << Ask(statement, StreamPtr(1)), Put(statement, 1, 1), Put(statement, 1, 2),
                Ask(statement, StreamPtr(2)), Put(statement, 2, 1), Ask(statement, NullPtr) >>

C4_Witness == C4_Scenario /\ Len(calls) = 10

\* C5: when the execution call reports need-data, num-result-cols is queried
\* only after param-data has reported that no identity is left: never while
\* the driver still waits for a delayed parameter.
C5_StreamingCompletesBeforeNumCols ==
    (Ewp /\ exec_ret = "NEED_DATA") =>
        /\ pc = "num_result_cols" => driver # "need_data"
        /\ \A k \in CallIndices : calls[k].fn = "SQLNumResultCols" =>
              /\ driver # "need_data"
              /\ k > 5
              /\ calls[k - 1] = Ask(statement, NullPtr)

C5_Witness ==
    /\ Ewp /\ exec_ret = "NEED_DATA" /\ asks > 0
    /\ \E k \in CallIndices : calls[k].fn = "SQLNumResultCols"

\* C6: with cardinality > 0, all driver calls succeeding and num-result-cols
\* reporting 0, execute_with_parameters returns Ok(None), not an error.
C6_ZeroColumnsIsOkNone ==
    (Ewp /\ parameter_set_size > 0 /\ cols = Checked(0)) => (Done /\ result = OkNone)

C6_Witness ==
    Ewp /\ parameter_set_size > 0 /\ cols = Checked(0) /\ Done /\ result = OkNone

\* C7: when all driver calls succeed and num-result-cols reports a count > 0,
\* the outcome is Ok(Some(cursor)) and the cursor wraps the statement handle
\* that was acquired and on which every call was made.
C7_PositiveColumnsIsCursorOnSameHandle ==
    (Ewp /\ cols.checked /\ cols.n > 0) =>
        /\ Done
        /\ statement \in Handles
        /\ result = [kind |-> "Ok", tag |-> "Some", cursor |-> statement]
        /\ \A k \in CallIndices : calls[k].h = statement
        /\ \E k \in CallIndices : calls[k].fn \in ExecFns

C7_Witness ==
    /\ Ewp /\ cols.checked /\ cols.n > 0 /\ Done
    /\ result.tag = "Some" /\ result.cursor = statement

\* A Cursor has been constructed.
HasCursor == result.kind = "Ok" /\ result.tag \in {"Some", "Cursor"}

\* C8 (as claimed): in execute, execute_columns and execute_tables a Cursor is
\* constructed only after the result-column count of the statement has been
\* confirmed to be > 0, never for a count that is 0, negative or unchecked.
C8_CursorOnlyAfterPositiveCount ==
    HasCursor => (cols.checked /\ cols.n > 0)

\* C8 (amended): in execute a Cursor is constructed only after
\* num_result_cols succeeded and reported a count other than 0; in
\* execute_columns and execute_tables a Cursor is constructed only after the
\* columns/tables call succeeded, and its count is confirmed to be other than
\* 0 only in a build with debug assertions: without them the count is not
\* queried at all.
C8_CursorOnlyAfterNonZeroOrAssumed ==
    HasCursor =>
        IF Ewp
        THEN cols.checked /\ cols.n # 0
        ELSE /\ exec_ret \in {"SUCCESS", "SUCCESS_WITH_INFO"}
             /\ calls[1].fn = (IF op = "execute_columns" THEN "SQLColumnsW" ELSE "SQLTablesW")
             /\ IF debug_assertions
                THEN cols.checked /\ cols.n # 0
                ELSE cols = Unchecked /\ CountCalls("SQLNumResultCols") = 0

C8_Witness ==
    /\ HasCursor /\ op = "execute_columns" /\ ~debug_assertions
    /\ cols = Unchecked /\ result.cursor = statement

\* C9: when the execution call reports no-data the coordinator returns no
\* error for it: the streaming loop is skipped and the next call is
\* num-result-cols, whose answer decides the outcome exactly as after a plain
\* success.
NoStreamingThenNumCols ==
    /\ pc \in {"num_result_cols", "done"}
    /\ Len(calls) >= 4
    /\ calls[4].fn \in ExecFns
    /\ \A k \in CallIndices : ~IsAsk(k) /\ ~IsPut(k)
    /\ Len(calls) <= 5
    /\ Len(calls) = 5 => calls[5].fn = "SQLNumResultCols"
    /\ result.kind \in {"Pending", "Ok", "Err"}
    /\ result.kind = "Err" => (result.tag = "SQLNumResultCols" /\ ~cols.checked)
    /\ Done => Len(calls) = 5
    /\ (Done /\ cols.checked) =>
          result = (IF cols.n = 0 THEN OkNone
                    ELSE [kind |-> "Ok", tag |-> "Some", cursor |-> statement])

C9_NoDataIsNotAnError ==
    (Ewp /\ exec_ret \in {"NO_DATA", "SUCCESS", "SUCCESS_WITH_INFO"}) => NoStreamingThenNumCols

C9_Witness ==
    /\ Ewp /\ exec_ret = "NO_DATA" /\ Done /\ result.kind = "Ok" /\ num_blobs > 0
    /\ calls[5].fn = "SQLNumResultCols"

\* C10: with a query text exactly one exec-direct call, carrying that text,
\* is issued and no prepared execute call; without a query text exactly one
\* prepared execute call is issued and no exec-direct call.
C10_Dispatch ==
    Ewp =>
        /\ CountCalls("SQLExecDirectW") + CountCalls("SQLExecute") <= 1
        /\ (Len(calls) >= 4 \/ pc \in {"param_data", "next_batch", "put_binary_batch",
                                        "num_result_cols"}) =>
              calls[4] = (IF query # NoQuery THEN ExecDirect(statement, query)
                          ELSE ExecutePrepared(statement))
        /\ query # NoQuery => CountCalls("SQLExecute") = 0
        /\ query = NoQuery => CountCalls("SQLExecDirectW") = 0
        /\ \A k \in CallIndices : calls[k].fn = "SQLExecDirectW" => calls[k].text = query

C10_Witness ==
    /\ Ewp /\ query \in QueryTexts /\ Done
    /\ CountCalls("SQLExecDirectW") = 1 /\ CountCalls("SQLExecute") = 0

\* The most recent call the driver observed (only where calls # <<>>).
LastCall == calls[Len(calls)]
\* The j-th batch blob i yielded was empty.
EmptyPulled(i, j) == j \in 1..Len(pulled[i]) /\ pulled[i][j]
\* The call that precedes the pull of the j-th batch of blob i: the
\* param-data call that named the blob, or the put-data call of batch j - 1.
CallBeforePull(i, j) ==
    IF j = 1 THEN Ask(statement, StreamPtr(i)) ELSE Put(statement, i, j - 1)

\* C11: when a blob yields a zero-length batch the coordinator call fails, no
\* put-data call is issued for that batch, and no driver call at all is issued
\* after the batch was pulled (the log ends with the call that preceded the
\* pull, and the blob is not pulled again).
C11_EmptyBatchFailsWithoutPut ==
    Ewp => \A i \in 1..num_blobs : \A j \in 1..MaxBatches :
        EmptyPulled(i, j) =>
            /\ pc \in {"put_binary_batch", "done"}
            /\ Done => result.kind \in {"Err", "Panic"}
            /\ \A k \in CallIndices : calls[k] # Put(statement, i, j)
            /\ Len(calls) > 0 /\ LastCall = CallBeforePull(i, j)
            /\ j = Len(pulled[i])

C11_Witness ==
    /\ Ewp /\ Done
    /\ \E i \in 1..num_blobs : pulled[i] = <<FALSE, TRUE>> /\ LastCall = Put(statement, i, 1)

\* C12 as stated: when a blob yields a zero-length batch the coordinator call
\* returns an Error value of kind ProgrammingError.
C12_EmptyBatchReturnsProgrammingError ==
    (Ewp /\ Done /\ \E i \in 1..num_blobs : \E j \in 1..MaxBatches : EmptyPulled(i, j)) =>
        result.kind = "Err" /\ result.tag = "ProgrammingError"

\* C12 amended: when a blob yields a zero-length batch the coordinator call
\* does not return at all: put_binary_batch panics ("Attempt to put empty
\* batch into data source."), so the outcome is an unwinding panic and neither
\* an Ok nor an Err value reaches the caller.
C12_EmptyBatchPanics ==
    (Ewp /\ Done /\ \E i \in 1..num_blobs : \E j \in 1..MaxBatches : EmptyPulled(i, j)) =>
        result = Panic("empty batch")

C12_Witness ==
    /\ Ewp /\ Done /\ result = Panic("empty batch")
    /\ \E i \in 1..num_blobs : EmptyPulled(i, 1)

\* C13: when a blob's next_batch fails, the coordinator call returns
\* Error::FailedReadingInput carrying that io::Error, and the log of driver
\* calls ends with the call that preceded the pull: no put-data, param-data or
\* num-result-cols call follows.
C13_FailedPullIsFailedReadingInput ==
    (Ewp /\ io_error # "") =>
        /\ Done
        /\ result.kind = "Err" /\ result.tag = "FailedReadingInput"
        /\ result.cause = io_error
        /\ blob_ref \in 1..num_blobs
        /\ Len(calls) > 0
        /\ LastCall = CallBeforePull(blob_ref, Len(pulled[blob_ref]) + 1)
        /\ CountCalls("SQLNumResultCols") = 0

C13_Witness ==
    /\ Ewp /\ Done /\ io_error \in IoErrors
    /\ blob_ref \in 1..num_blobs /\ pulled[blob_ref] = <<FALSE>>
    /\ result = FailedReadingInput(io_error)

\* The tag an error of the call logged as fn carries: the log abstracts the
\* SQLBindParameter calls of bind_parameters_to into one entry.
DriverCallOf(fn) == IF fn = "bind_parameters_to" THEN "SQLBindParameter" ELSE fn

\* C14: when a step of execute_with_parameters fails, the call returns that
\* error at once.  A failed statement acquisition ends the call with no driver
\* call; a driver call answered with ERROR ends it with the error of that
\* call, the failed call is the last entry of the log (no later step is
\* issued) and it occurs in the log once (it is not retried).
C14_FailedStepEndsTheCall ==
    Ewp =>
        /\ (acquired = 1 /\ statement = NoHandle) =>
              Done /\ result = AcquireError /\ calls = <<>>
        /\ (Len(calls) > 0 /\ last_ret = "ERROR") =>
              /\ Done
              /\ result.kind = "Err"
              /\ result.tag = DriverCallOf(LastCall.fn)
              /\ Cardinality({k \in CallIndices : calls[k] = LastCall}) = 1

C14_Witness ==
    /\ Ewp /\ Done /\ last_ret = "ERROR"
    /\ Len(calls) = 6 /\ LastCall.fn = "SQLPutData"
    /\ result = DriverError("SQLPutData")

\* C15: every driver error an entry point returns is tagged with the name of
\* the driver call that reported the failure: that call is the last one the
\* driver observed, and it was not answered with a success code.
C15_ErrorNamesTheFailedCall ==
    (result.kind = "Err" /\ result.tag \notin {"lazy_statement", "FailedReadingInput"}) =>
        /\ Len(calls) > 0
        /\ last_ret \notin {"SUCCESS", "SUCCESS_WITH_INFO"}
        /\ result.tag = DriverCallOf(LastCall.fn)

C15_Witness ==
    /\ Done /\ result = DriverError("SQLParamData")
    /\ LastCall.fn = "SQLParamData" /\ last_ret = "ERROR"

\* The catalog call of the metadata entry point that is running.
CatalogFn == IF op = "execute_columns" THEN "SQLColumnsW" ELSE "SQLTablesW"

\* C20: execute_columns and execute_tables return an Err only when the
\* SQLColumnsW / SQLTablesW call itself fails, and then that call is the only
\* one issued (no column count is queried, no cursor is built).  When the
\* call succeeds the outcome is never an Err: it is a cursor on the statement,
\* or the call unwinds in the assertion; a column count of 0 read by the
\* assertion ends in the failed assertion.
C20_MetadataErrOnlyFromCatalogCall ==
    ~Ewp =>
        /\ result.kind = "Err" =>
              /\ exec_ret \notin {"", "SUCCESS", "SUCCESS_WITH_INFO"}
              /\ result = DriverError(CatalogFn)
              /\ calls = <<Call(CatalogFn, statement, 0, "", NullPtr)>>
              /\ cols = Unchecked
        /\ exec_ret = "ERROR" => Done /\ result.kind = "Err"
        /\ (exec_ret \in {"SUCCESS", "SUCCESS_WITH_INFO"} /\ Done) =>
              \/ result = CursorImpl_new(statement) /\ result.tag = "Cursor"
              \/ result.kind = "Panic"
        /\ cols = Checked(0) => result = Panic("debug_assert_ne")

C20_Witness ==
    /\ op = "execute_tables" /\ Done
    /\ exec_ret = "SUCCESS" /\ cols = Checked(0) /\ result = Panic("debug_assert_ne")

\* The driver answered with a success code.
Succeeded(a) == a.ret \in {"SUCCESS", "SUCCESS_WITH_INFO"}

\* C16: describe_col, when the first fill succeeds and reports a name length
\* L greater than the capacity C of the buffer it was given: a retry fill call
\* follows with a buffer of at least L + 1 characters; if the retry fails the
\* read ends with its error; if the retry succeeds and reports L again, the
\* read ends after these two calls with Ok and a name of exactly L characters.
C16_DescribeColOneRetry ==
    (op = "describe_col" /\ Len(answers) >= 1 /\ Succeeded(answers[1])
       /\ answers[1].n > calls[1].n) =>
        LET L == answers[1].n IN
        /\ Len(calls) = 1 => pc = "describe_col" /\ buf_len = L + 1 /\ buf_cap >= L + 1
        /\ Len(calls) >= 2 =>
              /\ calls[2] = Call("SQLDescribeColW", statement, calls[2].n, "", NullPtr)
              /\ calls[2].n >= L + 1
        /\ (Len(calls) >= 2 /\ ~Succeeded(answers[2])) =>
              Done /\ Len(calls) = 2 /\ result = DriverError("SQLDescribeColW")
        /\ (Len(calls) >= 2 /\ Succeeded(answers[2]) /\ answers[2].n = L) =>
              Done /\ Len(calls) = 2 /\ result = OkUnit /\ buf_len = L

C16_Witness ==
    /\ op = "describe_col" /\ Done /\ result = OkUnit
    /\ Len(calls) = 2 /\ calls[1].n = 1 /\ calls[2].n >= 3
    /\ Succeeded(answers[1]) /\ answers[1].n = 2
    /\ Succeeded(answers[2]) /\ answers[2].n = 2
    /\ buf_len = 2

\* C17: col_name, when the first fill succeeds and reports a length of L
\* bytes that, with the two bytes of the terminator, exceeds the 2 * C bytes
\* of the buffer it was given: exactly one retry fill call follows, with a
\* buffer of at least L + 2 bytes, and the read ends with it; on success the
\* buffer is trimmed to (L' + 1) / 2 characters for the length L' the retry
\* reported, which for a driver that reports the same even byte length L is
\* exactly L / 2 characters.
C17_ColNameOneRetry ==
    (op = "col_name" /\ Len(answers) >= 1 /\ Succeeded(answers[1])
       /\ calls[1].n < answers[1].n + 2) =>
        LET L == answers[1].n IN
        /\ Len(calls) = 1 => pc = "col_name_retry"
        /\ Len(calls) <= 2
        /\ Len(calls) = 2 =>
              /\ Done
              /\ calls[2] = Call("SQLColAttributeW", statement, calls[2].n, "Name", NullPtr)
              /\ calls[2].n >= L + 2
              /\ result = (IF Succeeded(answers[2]) THEN OkUnit
                           ELSE DriverError("SQLColAttributeW"))
              /\ Succeeded(answers[2]) => buf_len = (answers[2].n + 1) \div 2
              /\ (Succeeded(answers[2]) /\ answers[2].n = L /\ L % 2 = 0) =>
                    2 * buf_len = L

C17_Witness ==
    /\ op = "col_name" /\ Done /\ result = OkUnit
    /\ Len(calls) = 2 /\ calls[1].n = 2
    /\ Succeeded(answers[1]) /\ answers[1].n = 4
    /\ Succeeded(answers[2]) /\ answers[2].n = 4
    /\ buf_len = 2

\* C18: when the second answer of the driver succeeds and reports the same
\* length as the first, describe_col and col_name have returned Ok after
\* exactly these two fill calls, that is after a single resize for the retry.
C18_TwoFillsSuffice ==
    (op \in {"describe_col", "col_name"} /\ Len(answers) >= 2
       /\ Succeeded(answers[2]) /\ answers[2].n = answers[1].n) =>
        /\ Done
        /\ Len(calls) = 2
        /\ result = OkUnit

C18_Witness ==
    /\ op = "describe_col" /\ Done /\ Len(calls) = 2
    /\ calls[1].n = 0 /\ calls[2].n = 2
    /\ Succeeded(answers[2]) /\ answers[2].n = 1 /\ answers[1].n = 1
    /\ buf_len = 1

\* C19: is_unsigned_column makes one SQLColAttributeW call; on success it
\* returns false for the value 0 and true for the value 1 and panics for every
\* other value; an ERROR of the driver is returned as the error of that call,
\* whatever the out parameter holds, without a panic.
C19_UnsignedIsZeroOrOne ==
    (op = "is_unsigned_column" /\ Done) =>
        /\ Len(calls) = 1 /\ Len(answers) = 1
        /\ calls[1] = Call("SQLColAttributeW", statement, 0, "Unsigned", NullPtr)
        /\ (Succeeded(answers[1]) /\ answers[1].n = 0) => result = OkBool("false")
        /\ (Succeeded(answers[1]) /\ answers[1].n = 1) => result = OkBool("true")
        /\ (Succeeded(answers[1]) /\ answers[1].n \notin {0, 1}) => result.kind = "Panic"
        /\ answers[1].ret = "ERROR" => result = DriverError("SQLColAttributeW")

C19_Witness ==
    /\ op = "is_unsigned_column" /\ Done
    /\ Succeeded(answers[1]) /\ answers[1].n = 2
    /\ result.kind = "Panic"

\* C21: every identity param-data returns is the stream pointer bound at a
\* parameter slot, and it is resolved to the blob bound there: each put-data
\* call sends a batch pulled from the blob whose pointer the most recent
\* param-data call returned, and no dangling pointer is ever dereferenced.
C21_IdentityResolvesToBoundBlob ==
    Ewp =>
        /\ result # UndefinedBehaviour
        /\ \A k \in CallIndices : IsPut(k) =>
              \E a \in 1..(k - 1) :
                 LET i == calls[k].ptr[2] IN
                 /\ IsAsk(a)
                 /\ \A b \in (a + 1)..(k - 1) : ~IsAsk(b)
                 /\ calls[a].ptr = StreamPtr(i)
                 /\ i \in 1..Len(apd) /\ apd[i] = calls[a].ptr
                 /\ calls[k].ptr[3] \in 1..Len(pulled[i])

C21_Witness ==
    /\ Ewp /\ num_blobs = 2
    /\ \E k \in CallIndices :
          /\ k > 6
          /\ calls[k] = Put(statement, 2, 1)
          /\ calls[k - 1] = Ask(statement, StreamPtr(2))
          /\ \E a \in 1..(k - 2) : calls[a] = Ask(statement, StreamPtr(1))

\* C22: exec_direct and execute classify every return code alike: NEED_DATA
\* is Success(true), NO_DATA and the success codes are Success(false), ERROR
\* is an Error; and what the coordinator does after the execution call
\* depends on the return code only, not on which of the two was called.
C22_ExecFormsClassifyAlike ==
    /\ \A ret \in SqlReturn :
          /\ Stmt_exec_direct(ret).ok = Stmt_execute(ret).ok
          /\ Stmt_exec_direct(ret).value = Stmt_execute(ret).value
          /\ ret = "NEED_DATA" =>
                Stmt_exec_direct(ret) = SqlSuccess(TRUE) /\ Stmt_execute(ret) = SqlSuccess(TRUE)
          /\ ret \in {"NO_DATA", "SUCCESS", "SUCCESS_WITH_INFO"} =>
                Stmt_exec_direct(ret) = SqlSuccess(FALSE) /\ Stmt_execute(ret) = SqlSuccess(FALSE)
          /\ ret = "ERROR" => ~Stmt_exec_direct(ret).ok /\ ~Stmt_execute(ret).ok
    /\ (Ewp /\ exec_ret # "") =>
          /\ Len(calls) >= 4 /\ calls[4].fn \in ExecFns
          /\ exec_ret = "ERROR" => Done /\ result = DriverError(calls[4].fn)
          /\ (exec_ret = "NEED_DATA" /\ Len(calls) >= 5) => IsAsk(5)
          /\ (exec_ret \in {"NO_DATA", "SUCCESS", "SUCCESS_WITH_INFO"} /\ Len(calls) >= 5) =>
                calls[5].fn = "SQLNumResultCols"

C22_Witness ==
    /\ Ewp /\ query # NoQuery /\ exec_ret = "NO_DATA"
    /\ Len(calls) = 5 /\ calls[4].fn = "SQLExecDirectW" /\ calls[5].fn = "SQLNumResultCols"

\* C23: param_data is Some(identity) exactly for NEED_DATA, None for a success
\* code and an Error for ERROR; after Some the streaming loop drains that
\* blob, after None the loop is over and num-result-cols is next, after an
\* Error the coordinator call has returned it.
C23_ParamDataClassification ==
    /\ \A ptr \in {StreamPtr(1), NullPtr} :
          /\ Stmt_param_data("NEED_DATA", ptr) = SqlSuccess(<<ptr>>)
          /\ Stmt_param_data("SUCCESS", ptr) = SqlSuccess(<<>>)
          /\ Stmt_param_data("SUCCESS_WITH_INFO", ptr) = SqlSuccess(<<>>)
          /\ ~Stmt_param_data("ERROR", ptr).ok
    /\ \A k \in CallIndices : (IsAsk(k) /\ k < Len(calls)) =>
          IF calls[k].ptr = NullPtr
          THEN calls[k + 1].fn = "SQLNumResultCols"
          ELSE calls[k + 1].fn \in {"SQLPutData", "SQLParamData"}
    /\ (Ewp /\ Len(calls) > 0 /\ IsAsk(Len(calls))) =>
          /\ last_ret = "NEED_DATA" <=> LastCall.ptr # NullPtr
          /\ last_ret = "NEED_DATA" =>
                /\ LastCall.ptr = StreamPtr(blob_ref)
                /\ pc \in {"next_batch", "put_binary_batch", "param_data", "done"}
                /\ Done => result.tag \in {"FailedReadingInput", "empty batch"}
          /\ last_ret \in {"SUCCESS", "SUCCESS_WITH_INFO"} => pc = "num_result_cols"
          /\ last_ret = "ERROR" => Done /\ result = DriverError("SQLParamData")

C23_Witness ==
    /\ Ewp /\ Len(calls) = 6 /\ IsAsk(5) /\ IsAsk(6)
    /\ calls[5].ptr = StreamPtr(1) /\ calls[6].ptr = NullPtr
    /\ last_ret = "SUCCESS" /\ pc = "num_result_cols"

\* C24: a put-data call answered with a success code or NEED_DATA is not an
\* error: the coordinator goes on to pull the next batch of the same blob.
C24_PutNeedDataContinues ==
    (Ewp /\ Len(calls) > 0 /\ IsPut(Len(calls))
       /\ last_ret \in {"SUCCESS", "SUCCESS_WITH_INFO", "NEED_DATA"}) =>
        LET i == LastCall.ptr[2]
            j == LastCall.ptr[3]
        IN
        /\ result # DriverError("SQLPutData")
        /\ blob_ref = i
        /\ \/ pc = "next_batch" /\ Len(pulled[i]) = j
           \/ pc = "put_binary_batch" /\ Len(pulled[i]) = j + 1
           \/ pc = "param_data" /\ i \in exhausted /\ Len(pulled[i]) = j
           \/ Done /\ io_error # "" /\ Len(pulled[i]) = j
           \/ Done /\ result = Panic("empty batch") /\ Len(pulled[i]) = j + 1

C24_Witness ==
    /\ Ewp /\ last_ret = "NEED_DATA" /\ pc = "put_binary_batch"
    /\ LastCall = Put(statement, 1, 1) /\ pulled[1] = <<FALSE, FALSE>>

\* C30: when the execution call answers with a success code or NO_DATA,
\* neither param-data nor put-data is called and no blob is pulled, also when
\* delayed parameters are bound: the next call is num-result-cols.
C30_NoStreamingWithoutNeedData ==
    (Ewp /\ exec_ret \in {"SUCCESS", "SUCCESS_WITH_INFO", "NO_DATA"}) =>
        /\ CountCalls("SQLParamData") = 0
        /\ CountCalls("SQLPutData") = 0
        /\ \A i \in 1..num_blobs : pulled[i] = <<>>
        /\ exhausted = {}
        /\ pc \in {"num_result_cols", "done"}
        /\ Len(calls) <= 5
        /\ Len(calls) = 5 => calls[5].fn = "SQLNumResultCols"

C30_Witness ==
    /\ Ewp /\ num_blobs = 2 /\ Len(apd) = 2 /\ exec_ret = "SUCCESS"
    /\ Done /\ Len(calls) = 5 /\ calls[5].fn = "SQLNumResultCols"

\* C25: describe_col, after a successful first fill that reports the name
\* length L for a buffer of C characters: if L + 1 > C (the boundary L = C
\* included) the read is not over and fills again; if L + 1 <= C the read
\* has returned Ok after this one fill call with the name trimmed to L.
C25_DescribeColRetriesIffNoRoom ==
    (op = "describe_col" /\ Len(answers) >= 1 /\ Succeeded(answers[1])) =>
        LET L == answers[1].n
            C == calls[1].n
        IN
        IF L + 1 > C
        THEN /\ Len(calls) = 1 => pc = "describe_col" /\ result = Pending /\ buf_len = L + 1
             /\ Done => Len(calls) >= 2
        ELSE /\ Done /\ result = OkUnit
             /\ Len(calls) = 1
             /\ buf_len = L

C25_Witness ==
    /\ op = "describe_col" /\ Done /\ result = OkUnit
    /\ Len(calls) = 2 /\ calls[1].n = 1
    /\ Succeeded(answers[1]) /\ answers[1].n = 1
    /\ Succeeded(answers[2]) /\ answers[2].n = 1 /\ buf_len = 1

\* C26: when a fill call of describe_col or col_name is answered with ERROR,
\* the read returns the error of that call and that call is the last one: no
\* fill call follows it, so a failed first attempt is never retried.
C26_FailedFillIsNotRetried ==
    op \in NameReads =>
        \A k \in 1..Len(answers) : answers[k].ret = "ERROR" =>
            /\ k = Len(answers) /\ k = Len(calls)
            /\ Done
            /\ result = DriverError(calls[k].fn)

C26_Witness ==
    /\ op = "describe_col" /\ Done /\ Len(calls) = 1
    /\ calls[1].n = 0 /\ answers[1].ret = "ERROR"
    /\ result = DriverError("SQLDescribeColW")

\* The odbc_sys::Desc each numeric accessor asks for.
DescOf(accessor) ==
    CASE accessor = "is_unsigned_column" -> "Unsigned"
      [] accessor = "col_type" -> "Type"
      [] accessor = "col_concise_type" -> "ConciseType"
      [] accessor = "col_octet_length" -> "OctetLength"
      [] accessor = "col_display_size" -> "DisplaySize"
      [] accessor = "col_precision" -> "Precision"
      [] accessor = "col_scale" -> "Scale"

\* The integer an Ok outcome of a numeric accessor stands for.
ReturnedInteger ==
    IF result.tag = "false" THEN 0
    ELSE IF result.tag = "true" THEN 1
    ELSE result.value

\* C27 as stated: every numeric accessor returns, on success of its driver
\* call, the integer the driver wrote.
C27_AccessorReturnsWrittenInteger ==
    (op \in NumericAccessors /\ Done /\ Succeeded(answers[1])) =>
        /\ result.kind = "Ok"
        /\ ReturnedInteger = answers[1].n

\* C27 amended: every numeric accessor issues exactly one SQLColAttributeW
\* call, for its attribute and without a buffer, and never a second one; an
\* ERROR is returned as the error of that call.  On success the octet length,
\* display size, precision and scale accessors return the integer the driver
\* wrote; the type accessors return it as SqlDataType if it is in the range
\* of an i16 and panic if it is not; the unsigned flag is false for 0, true
\* for 1 and a panic for any other value.
C27_AccessorOneCall ==
    op \in NumericAccessors =>
        /\ ~Done => calls = <<>> /\ pc = op
        /\ Done =>
              LET out == answers[1].n IN
              /\ Len(answers) = 1
              /\ calls = <<Call("SQLColAttributeW", statement, 0, DescOf(op), NullPtr)>>
              /\ answers[1].ret = "ERROR" => result = DriverError("SQLColAttributeW")
              /\ (Succeeded(answers[1]) /\ op \in LenAccessors) => result = OkLen(out)
              /\ (Succeeded(answers[1]) /\ op \in TypeAccessors) =>
                    IF out <= I16_MAX THEN result = OkSqlDataType(out)
                    ELSE result.kind = "Panic"
              /\ (Succeeded(answers[1]) /\ op = "is_unsigned_column") =>
                    IF out \in {0, 1} THEN result.kind = "Ok" /\ ReturnedInteger = out
                    ELSE result.kind = "Panic"

C27_Witness ==
    /\ op = "col_display_size" /\ Done /\ Len(calls) = 1
    /\ Succeeded(answers[1]) /\ answers[1].n = 2 /\ result = OkLen(2)

\* The coordinator runs on one thread and every step it waits for (a driver
\* call, a pull from a blob) returns: a step that is enabled is taken.
SpecLive == Init /\ [][Next]_vars /\ WF_vars(Next)

\* C28: with blobs of at most MaxBatches batches and a driver that asks for at
\* most MaxAsks identities, every coordinator call eventually returns a result
\* or fails.
C28_CoordinatorTerminates == <>Done

C28_Witness ==
    /\ Ewp /\ Done /\ result.kind = "Ok"
    /\ asks = MaxAsks
    /\ \E i \in 1..num_blobs : Len(pulled[i]) = MaxBatches /\ i \in exhausted

\* odbcsv insert has left the loop over the records and is about to execute
\* the remainder of the buffer / has done so.
LoopOver == op = "insert" /\ pc = "insert_record" /\ rows_read = num_records
Flushed == op = "insert" /\ Done /\ rows_read = num_records

\* C29: odbcsv insert, at the final statement.execute(&buffer) after the
\* loop: the buffer is without rows exactly when the CSV had no records; the
\* flush of a buffer without rows executes nothing on the driver (no
\* execution is ever observed with 0 rows) and insert returns Ok; the flush of
\* a buffer with rows is observed by the driver with exactly these rows.
C29_FinalFlushOfEmptyBufferIsNoOp ==
    op = "insert" =>
        /\ (LoopOver \/ Flushed) => (parameter_set_size = 0 <=> num_records = 0)
        /\ \A k \in CallIndices : calls[k].n >= 1
        /\ (Flushed /\ parameter_set_size = 0) => calls = <<>> /\ result = InsertOk
        /\ (Flushed /\ parameter_set_size > 0) =>
              /\ Len(calls) > 0
              /\ LastCall = Call("SQLExecute", statement, parameter_set_size, "", buffer)

C29_Witness ==
    /\ Flushed /\ num_records = 0 /\ parameter_set_size = 0
    /\ calls = <<>> /\ result = InsertOk

\* C31: a call of execute_with_parameters with cardinality > 0 that returns
\* successfully has issued exactly one execution call and exactly one
\* num-result-cols call, the binding precedes the execution call, and
\* num-result-cols is the last call the driver observed; once the call has
\* returned (Ok(None) or a cursor) the coordinator issues no further call and
\* binds nothing on the handle.
C31_ReturnedOk == Ewp /\ parameter_set_size > 0 /\ Done /\ result.kind = "Ok"

C31_NumColsIsTheLastCall ==
    /\ [](C31_ReturnedOk =>
            /\ Cardinality({k \in CallIndices : calls[k].fn \in ExecFns}) = 1
            /\ CountCalls("SQLNumResultCols") = 1
            /\ CountCalls("bind_parameters_to") = 1
            /\ LastCall.fn = "SQLNumResultCols"
            /\ LastCall.h = statement
            /\ \A k \in CallIndices : calls[k].fn = "bind_parameters_to" => k = 3)
    /\ [][Done => (calls' = calls /\ apd' = apd /\ result' = result)]_vars

C31_Witness ==
    /\ C31_ReturnedOk /\ result = CursorImpl_new(statement) /\ statement \in Handles
    /\ exec_ret = "NEED_DATA" /\ asks > 0
    /\ LastCall.fn = "SQLNumResultCols"

\* C32: the assertion `size > 0` of set_paramset_size never fails when it is
\* reached through execute_with_parameters: the coordinator is at that call
\* only with a positive cardinality, and no outcome is the assertion's panic.
C32_SizeAssertionHolds ==
    Ewp =>
        /\ pc = "set_paramset_size" => parameter_set_size > 0
        /\ result # Panic("assert")
        /\ \A k \in CallIndices : calls[k].fn = "SQLSetStmtAttrW" => calls[k].n > 0

C32_Witness ==
    /\ Ewp /\ parameter_set_size = MaxParamsetSize
    /\ \E k \in CallIndices : calls[k] = SetCardinality(statement, MaxParamsetSize)

\* The rows the executions observed so far carried, in the order of the calls.
RECURSIVE SentUpTo(_)
SentUpTo(k) == IF k = 0 THEN <<>> ELSE SentUpTo(k - 1) \o calls[k].ptr
Sent == SentUpTo(Len(calls))
\* The records 1..n in input order.
Records(n) == [i \in 1..n |-> i]
\* No execution and no read of a record has failed so far.
NoInsertError == result \in {Pending, InsertOk}

\* C36: odbcsv insert, absent errors: inside the loop the rows sent so far
\* followed by the rows in the buffer are the records read so far, each once
\* and in input order (so a row that was sent in a full batch is no longer in
\* the buffer when more are appended);
\* no execution carries more than batch_size rows, every execution inside the
\* loop carries exactly batch_size rows, the buffer never holds more than
\* batch_size rows; and when insert returns Ok every record of the CSV has
\* been sent exactly once, in input order.
C36_EveryRecordSentOnceInOrder ==
    (op = "insert" /\ NoInsertError) =>
        /\ ~Done => Sent \o buffer = Records(rows_read)
        /\ Len(buffer) = parameter_set_size
        /\ Len(buffer) <= batch_size
        /\ \A k \in CallIndices :
              /\ calls[k].fn = "SQLExecute"
              /\ Len(calls[k].ptr) = calls[k].n
              /\ calls[k].n <= batch_size
              /\ (k < Len(calls) \/ ~Done) => calls[k].n = batch_size
        /\ result = InsertOk => Sent = Records(num_records)

C36_Witness ==
    /\ op = "insert" /\ result = InsertOk /\ batch_size = 2 /\ num_records = 3
    /\ Len(calls) = 2 /\ calls[1].ptr = <<1, 2>> /\ calls[2].ptr = <<3>>

\* C33: whatever the driver answers, a driver included that reports a larger
\* length on the retry than on the first attempt, describe_col and col_name
\* issue at most two fill calls, and have returned once the second is answered.
C33_AtMostTwoFills ==
    op \in NameReads =>
        /\ Len(answers) <= 2
        /\ Len(calls) <= 2
        /\ Len(answers) = 2 => Done

\* C34: col_name, for every initial capacity of the buffer and every length in
\* 0..32767 the driver reports, ends without a panic of a conversion or of an
\* overflowing addition (as twice the capacity or twice the size of the retry
\* not being an i16 would cause): every buffer length it passes to the driver
\* is an i16, and so is the reported length + 2.
C34_ColNameStaysInI16 ==
    op = "col_name" =>
        /\ result.kind # "Panic"
        /\ \A k \in CallIndices : calls[k].n <= I16_MAX
        /\ (Len(answers) >= 1 /\ Succeeded(answers[1])) =>
              ~I16Overflows(answers[1].n + 2)

\* C35: describe_col, for every capacity of the buffer and every name length
\* in 0..32767 the driver reports, ends without overflow: the buffer length
\* passed to the driver is an i16, and name_length + 1 is computed within the
\* range of an i16 for every length a successful call reports.
C35_DescribeColStaysInI16 ==
    op = "describe_col" =>
        /\ result.kind # "Panic"
        /\ \A k \in CallIndices : calls[k].n <= I16_MAX
        /\ \A j \in 1..Len(answers) :
              Succeeded(answers[j]) => ~I16Overflows(answers[j].n + 1)

\* The releases of handle h the driver observed from its StatementImpl, and
\* from anyone.
ReleasesByWrapper(h) == Cardinality({k \in CallIndices : calls[k] = drop_handle(h)})
Releases(h) ==
    Cardinality({k \in CallIndices : calls[k].fn = "SQLFreeHandle" /\ calls[k].h = h})

\* C37: the handle of a StatementImpl is released by the wrapper exactly once
\* when the wrapper is dropped, not before, and never by the wrapper once
\* into_sys has handed the raw handle to the caller; so no handle is released
\* twice, whoever owns it.
C37_ReleasedOnceByDropNeverAfterIntoSys ==
    op = "StatementImpl" =>
        \A h \in DOMAIN wrappers :
           /\ wrappers[h] \in WrapperStates
           /\ wrappers[h] = "dropped" => ReleasesByWrapper(h) = 1 /\ Releases(h) = 1
           /\ wrappers[h] \in {"allocated", "wrapped"} => Releases(h) = 0
           /\ wrappers[h] \in {"raw", "freed"} => ReleasesByWrapper(h) = 0
           /\ wrappers[h] = "raw" => Releases(h) = 0
           /\ Releases(h) <= 1

C37_Witness ==
    /\ op = "StatementImpl"
    /\ \E h \in DOMAIN wrappers : wrappers[h] = "dropped" /\ ReleasesByWrapper(h) = 1
    /\ \E h \in DOMAIN wrappers :
          wrappers[h] = "freed" /\ ReleasesByWrapper(h) = 0 /\ Releases(h) = 1
====
